---- MODULE Spec2Model ----
(***************************************************************************)
(* SheetSane analysis engine (src/src/lib/analyzer.ts).                    *)
(*                                                                         *)
(* Cell text is a sequence of one-character strings, so that trim, the     *)
(* date patterns and String(number) are computed character by character.   *)
(* Sheet names and the strings a finding carries are TLA+ strings built    *)
(* with \o the way the code builds them with join and template literals.   *)
(***************************************************************************)
EXTENDS Integers, Sequences, FiniteSets, TLC

(***************************************************************************)
(* Program constants (src/src/lib/limits.ts).                              *)
(***************************************************************************)
MAX_SHEETS == 20
MAX_ROWS_PER_SHEET == 10000
MAX_COLS_PER_SHEET == 200

(***************************************************************************)
(* Bounds of the model.                                                    *)
(***************************************************************************)
\* sheets beyond MAX_SHEETS in the largest workbook
MaxExtraSheets == 5
\* rows / columns beyond the per-sheet limits in the largest sheet
MaxExtraRows == 1
MaxExtraCols == 1
\* outcomes of the random source behind uuidv4() per call
MaxSeed == 1
\* clock readings
MaxClock == 1
\* inputs of calculateScore
MaxErrors == 20
MaxWarnings == 11
MaxInfos == 2
\* the columns of the enumerated header rows, and the rows of the enumerated
\* key columns and error columns
MaxHeaders == 3
MaxKeyRows == 4
MaxErrorRows == 4
\* a column for the anomaly check: its date texts and its other values
MaxDates == 4
MaxOthers == 7
MaxIndex == 730
\* rate-limit windows an address lives through
MaxWindows == 1
\* requests of the second address
MaxOtherRequests == 2
\* sweeps of the file store's interval timer
MaxSweeps == 7
\* files uploaded and checkout sessions created that the services still know
MaxUploads == 2
MaxCheckouts == 2
\* requests counted for the address in one window
MaxRequests == 11
\* steps of the clock between the requests
MaxAdvances == 2

(***************************************************************************)
(* State.                                                                  *)
(*   workbook, selectedKeyColumn, fileId, fileName: the call's arguments   *)
(*     (the workbook as parseWorkbook returns it);                         *)
(*   pc, sheets, findings, sheetIdx: analyzeWorkbook's position and locals;*)
(*   processed: the sheets the loop body has run on;                       *)
(*   result, prevResult: what the current and the previous call returned;  *)
(*   uuidSeed: the state of the random source behind uuidv4();             *)
(*   now: the clock;                                                       *)
(*   scoreArg, scoreRet, scorePrev: calculateScore called on its own;      *)
(*   preview: what generatePreview returned;                               *)
(*   letterCall: getColumnLetter called on its own: its argument, its      *)
(*     locals temp and letter, and its position.                           *)
(***************************************************************************)
VARIABLES workbook, selectedKeyColumn, fileId, fileName,
          pc, sheets, findings, sheetIdx, processed,
          result, prevResult, uuidSeed, now,
          scoreArg, scoreRet, scorePrev,
          preview, letterCall,
          rateLimitStore, served, fileStore, tmpFiles, r2Bucket,
          stripeSessions, cookie, request, response, routeCall

inputVars == <<workbook, selectedKeyColumn, fileId, fileName>>
callVars == <<pc, sheets, findings, sheetIdx, processed, result, prevResult, uuidSeed>>
scoreVars == <<scoreArg, scoreRet, scorePrev>>
routeVars == <<rateLimitStore, served, fileStore, tmpFiles, r2Bucket,
               stripeSessions, cookie, request, response, routeCall>>
otherCalls == <<preview, letterCall, routeVars>>
vars == <<workbook, selectedKeyColumn, fileId, fileName,
          pc, sheets, findings, sheetIdx, processed,
          result, prevResult, uuidSeed, now,
          scoreArg, scoreRet, scorePrev,
          preview, letterCall,
          rateLimitStore, served, fileStore, tmpFiles, r2Bucket,
          stripeSessions, cookie, request, response, routeCall>>

\* a Map or a directory with nothing in it
EmptyMap == [k \in {} |-> {}]

Min(a, b) == IF a < b THEN a ELSE b
Max(a, b) == IF a > b THEN a ELSE b

(***************************************************************************)
(* Strings.                                                                *)
(***************************************************************************)
DigitChars == <<"0", "1", "2", "3", "4", "5", "6", "7", "8", "9">>
UpperChars == <<"A", "B", "C", "D", "E", "F", "G", "H", "I", "J", "K", "L", "M",
                "N", "O", "P", "Q", "R", "S", "T", "U", "V", "W", "X", "Y", "Z">>
LowerChars == <<"a", "b", "c", "d", "e", "f", "g", "h", "i", "j", "k", "l", "m",
                "n", "o", "p", "q", "r", "s", "t", "u", "v", "w", "x", "y", "z">>

IsDigit(ch) == \E i \in 1..10 : DigitChars[i] = ch
DigitVal(ch) == (CHOOSE i \in 1..10 : DigitChars[i] = ch) - 1

\* String.prototype.toLowerCase on one character
ToLower(ch) ==
    IF \E i \in 1..26 : UpperChars[i] = ch
    THEN LowerChars[CHOOSE i \in 1..26 : UpperChars[i] = ch]
    ELSE ch

\* a character sequence as one string
RECURSIVE Text(_)
Text(cs) == IF cs = <<>> THEN "" ELSE Head(cs) \o Text(Tail(cs))

\* String(n) for a non-negative integer n
RECURSIVE NumChars(_)
NumChars(n) ==
    IF n < 10 THEN <<DigitChars[n + 1]>>
    ELSE NumChars(n \div 10) \o <<DigitChars[(n % 10) + 1]>>

NumText(n) == Text(NumChars(n))

\* Array.prototype.join over strings (the list is split in halves to keep the
\* evaluation shallow)
RECURSIVE Join(_, _)
Join(items, sep) ==
    IF items = <<>> THEN ""
    ELSE IF Len(items) = 1 THEN items[1]
    ELSE LET h == Len(items) \div 2
         IN  Join(SubSeq(items, 1, h), sep) \o sep
             \o Join(SubSeq(items, h + 1, Len(items)), sep)

IsSpace(ch) == ch \in {" ", "\t", "\n", "\r"}

RECURSIVE TrimLeft(_)
TrimLeft(cs) ==
    IF cs # <<>> /\ IsSpace(Head(cs)) THEN TrimLeft(Tail(cs)) ELSE cs

RECURSIVE TrimRight(_)
TrimRight(cs) ==
    IF cs # <<>> /\ IsSpace(cs[Len(cs)])
    THEN TrimRight(SubSeq(cs, 1, Len(cs) - 1))
    ELSE cs

\* String.prototype.trim
Trim(cs) == TrimRight(TrimLeft(cs))

Range(s) == {s[i] : i \in 1..Len(s)}

(***************************************************************************)
(* Plain JavaScript objects used as maps (Record<string, T> = {}): a       *)
(* sequence of <<key, value>> pairs in insertion order.  Object.entries    *)
(* lists the keys that are canonical array indices first, in ascending     *)
(* numeric order, then the other keys in insertion order.                  *)
(***************************************************************************)
ObjHas(obj, k) == \E i \in 1..Len(obj) : obj[i][1] = k
ObjGet(obj, k) == obj[CHOOSE i \in 1..Len(obj) : obj[i][1] = k][2]
ObjSet(obj, k, v) ==
    IF ObjHas(obj, k)
    THEN [i \in 1..Len(obj) |-> IF obj[i][1] = k THEN <<k, v>> ELSE obj[i]]
    ELSE Append(obj, <<k, v>>)

\* The object literal {} inherits from Object.prototype: reading one of these
\* keys from an object that has no own property of that name yields the
\* inherited member (a function, or the prototype itself for "__proto__"),
\* which is truthy and is neither a number nor an array.
PrototypeKeys ==
    { <<"c", "o", "n", "s", "t", "r", "u", "c", "t", "o", "r">>,
      <<"t", "o", "S", "t", "r", "i", "n", "g">>,
      <<"v", "a", "l", "u", "e", "O", "f">>,
      <<"t", "o", "L", "o", "c", "a", "l", "e", "S", "t", "r", "i", "n", "g">>,
      <<"h", "a", "s", "O", "w", "n", "P", "r", "o", "p", "e", "r", "t", "y">>,
      <<"i", "s", "P", "r", "o", "t", "o", "t", "y", "p", "e", "O", "f">>,
      <<"p", "r", "o", "p", "e", "r", "t", "y", "I", "s", "E", "n", "u", "m", "e", "r",
        "a", "b", "l", "e">>,
      <<"_", "_", "p", "r", "o", "t", "o", "_", "_">>,
      <<"_", "_", "d", "e", "f", "i", "n", "e", "G", "e", "t", "t", "e", "r", "_", "_">>,
      <<"_", "_", "d", "e", "f", "i", "n", "e", "S", "e", "t", "t", "e", "r", "_", "_">>,
      <<"_", "_", "l", "o", "o", "k", "u", "p", "G", "e", "t", "t", "e", "r", "_", "_">>,
      <<"_", "_", "l", "o", "o", "k", "u", "p", "S", "e", "t", "t", "e", "r", "_", "_">> }

\* obj[k] is truthy because of an inherited member, not an own property
Inherits(obj, k) == ~ObjHas(obj, k) /\ k \in PrototypeKeys

\* obj[k] = v for a primitive v: the "__proto__" setter ignores a primitive,
\* every other key becomes (or updates) an own property
ObjAssign(obj, k, v) ==
    IF k = <<"_", "_", "p", "r", "o", "t", "o", "_", "_">> THEN obj ELSE ObjSet(obj, k, v)

RECURSIVE DigitsValue(_)
DigitsValue(cs) ==
    IF cs = <<>> THEN 0
    ELSE 10 * DigitsValue(SubSeq(cs, 1, Len(cs) - 1)) + DigitVal(cs[Len(cs)])

\* a canonical array index: "0", "7", "10", never "01" or ""
IsIndexKey(cs) ==
    /\ cs # <<>>
    /\ Len(cs) <= 9
    /\ \A i \in 1..Len(cs) : IsDigit(cs[i])
    /\ (Len(cs) > 1 => cs[1] # "0")

RECURSIVE SortIndexEntries(_)
SortIndexEntries(es) ==
    IF es = <<>> THEN <<>>
    ELSE LET m == CHOOSE i \in 1..Len(es) :
                      \A j \in 1..Len(es) : DigitsValue(es[i][1]) <= DigitsValue(es[j][1])
         IN  <<es[m]>> \o SortIndexEntries(SubSeq(es, 1, m - 1) \o SubSeq(es, m + 1, Len(es)))

IndexEntry(e) == IsIndexKey(e[1])
NamedEntry(e) == ~IsIndexKey(e[1])

Reverse(q) == [i \in 1..Len(q) |-> q[Len(q) + 1 - i]]

\* mutant: the keys come in an order that depends on the random source
ObjectEntriesUnordered(obj) ==
    IF uuidSeed % 2 = 1
    THEN Reverse(SortIndexEntries(SelectSeq(obj, IndexEntry)) \o SelectSeq(obj, NamedEntry))
    ELSE SortIndexEntries(SelectSeq(obj, IndexEntry)) \o SelectSeq(obj, NamedEntry)

ObjectEntries(obj) ==
    SortIndexEntries(SelectSeq(obj, IndexEntry)) \o SelectSeq(obj, NamedEntry)

(***************************************************************************)
(* The parsed workbook (SheetJS).  A cell is [t, vk, vn, vs, w]: the type  *)
(* tag t, the value v as a tagged variant (vk = "num", "str", "bool" or    *)
(* "undef", with vn the number or boolean and vs the text) and the         *)
(* formatted text w (empty when absent).  A worksheet is [hasRef, ref,     *)
(* cells]: '!ref' and the sparse map from <<row, column>> to cell.         *)
(***************************************************************************)
NumCell(n) == [t |-> "n", vk |-> "num", vn |-> n, vs |-> <<>>, w |-> <<>>]
StrCell(cs) == [t |-> "s", vk |-> "str", vn |-> 0, vs |-> cs, w |-> <<>>]
BoolCell(b) == [t |-> "b", vk |-> "bool", vn |-> b, vs |-> <<>>, w |-> <<>>]
ErrCell(code, cs) == [t |-> "e", vk |-> "num", vn |-> code, vs |-> <<>>, w |-> cs]
StubCell == [t |-> "z", vk |-> "undef", vn |-> 0, vs |-> <<>>, w |-> <<>>]

\* XLSX.utils.decode_range(worksheet['!ref'] || 'A1')
A1Range == [s |-> [r |-> 0, c |-> 0], e |-> [r |-> 0, c |-> 0]]
DecodeRange(ws) == IF ws.hasRef THEN ws.ref ELSE A1Range

\* worksheet[XLSX.utils.encode_cell({r, c})] is defined
HasCell(ws, r, c) == <<r, c>> \in DOMAIN ws.cells
CellAt(ws, r, c) == ws.cells[<<r, c>>]

\* cell.v is falsy: undefined, 0, '' or false
Falsy(cell) ==
    \/ cell.vk = "undef"
    \/ cell.vk = "num" /\ cell.vn = 0
    \/ cell.vk = "bool" /\ cell.vn = 0
    \/ cell.vk = "str" /\ cell.vs = <<>>

\* String(cell.v)
StringOf(cell) ==
    CASE cell.vk = "num" -> NumChars(cell.vn)
      [] cell.vk = "str" -> cell.vs
      [] cell.vk = "bool" -> IF cell.vn = 1 THEN <<"t", "r", "u", "e">>
                                            ELSE <<"f", "a", "l", "s", "e">>
      [] OTHER -> <<"u", "n", "d", "e", "f", "i", "n", "e", "d">>

\* cell ? String(cell.v || '') : ''
HeaderText(ws, r, c) ==
    IF HasCell(ws, r, c) /\ ~Falsy(CellAt(ws, r, c))
    THEN StringOf(CellAt(ws, r, c))
    ELSE <<>>

RECURSIVE ColumnLetterLoop(_, _)
ColumnLetterLoop(temp, letter) ==
    IF temp >= 0
    THEN ColumnLetterLoop((temp \div 26) - 1, UpperChars[(temp % 26) + 1] \o letter)
    ELSE letter

getColumnLetter(index) == ColumnLetterLoop(index, "")

\* XLSX.utils.encode_cell: column letters, then the 1-based row
EncodeCell(r, c) == ColumnLetterLoop(c, "") \o NumText(r + 1)

(***************************************************************************)
(* Findings (src/src/lib/types.ts).  The optional fields column, cellRef   *)
(* and rowNumbers are <<>> when absent and a one-element sequence when     *)
(* present.  description and suggestion are a template literal: the        *)
(* template's name and the interpolated strings in order.                  *)
(***************************************************************************)
Tpl(name, args) == [tpl |-> name, args |-> args]

Finding(severity, category, sheet, column, cellRef, rowNumbers, description, suggestion) ==
    [id |-> "", severity |-> severity, category |-> category, sheet |-> sheet,
     column |-> column, cellRef |-> cellRef, rowNumbers |-> rowNumbers,
     description |-> description, suggestion |-> suggestion]

EXCEL_ERRORS ==
    << <<"#", "R", "E", "F", "!">>,
       <<"#", "D", "I", "V", "/", "0", "!">>,
       <<"#", "N", "A", "M", "E", "?">>,
       <<"#", "V", "A", "L", "U", "E", "!">>,
       <<"#", "N", "/", "A">>,
       <<"#", "N", "U", "L", "L", "!">>,
       <<"#", "N", "U", "M", "!">>,
       <<"#", "G", "E", "T", "T", "I", "N", "G", "_", "D", "A", "T", "A">> >>

IsDateSep(ch) == ch \in {"/", "-", "."}
AllDigits(cs, from, to) == \A i \in from..to : IsDigit(cs[i])

\* /^\d{a}[\/\-\.]\d{b}[\/\-\.]\d{d}$/ for given digit-run lengths
DigitRuns(cs, a, b, d) ==
    /\ Len(cs) = a + b + d + 2
    /\ AllDigits(cs, 1, a)
    /\ IsDateSep(cs[a + 1])
    /\ AllDigits(cs, a + 2, a + 1 + b)
    /\ IsDateSep(cs[a + b + 2])
    /\ AllDigits(cs, a + b + 3, a + b + 2 + d)

MonthPrefixes ==
    { <<"j", "a", "n">>, <<"f", "e", "b">>, <<"m", "a", "r">>, <<"a", "p", "r">>,
      <<"m", "a", "y">>, <<"j", "u", "n">>, <<"j", "u", "l">>, <<"a", "u", "g">>,
      <<"s", "e", "p">>, <<"o", "c", "t">>, <<"n", "o", "v">>, <<"d", "e", "c">> }

\* DATE_PATTERNS.some(pattern => pattern.test(cs))
MatchesDatePattern(cs) ==
    \/ \E a \in 1..2, b \in 1..2, d \in 2..4 : DigitRuns(cs, a, b, d)
    \/ \E b \in 1..2, d \in 1..2 : DigitRuns(cs, 4, b, d)
    \/ /\ Len(cs) >= 3
       /\ <<ToLower(cs[1]), ToLower(cs[2]), ToLower(cs[3])>> \in MonthPrefixes

(***************************************************************************)
(* getSheetInfo                                                            *)
(***************************************************************************)
\* sheetProps?.Hidden === 1 || sheetProps?.Hidden === 2
IsHidden(wb, sheetName) ==
    /\ sheetName \in DOMAIN wb.Props
    /\ wb.Props[sheetName] \in {1, 2}

SheetInfoOf(wb, sheetName) ==
    LET ws == wb.Sheets[sheetName]
        range == DecodeRange(ws)
        rowCount == range.e.r - range.s.r + 1
        columnCount == range.e.c - range.s.c + 1
    IN  [name |-> sheetName,
         isHidden |-> IsHidden(wb, sheetName),
         rowCount |-> rowCount,
         columnCount |-> columnCount,
         headers |-> [i \in 1..columnCount |->
                         Text(HeaderText(ws, range.s.r, range.s.c + i - 1))],
         hasData |-> rowCount > 1]

getSheetInfo(wb) ==
    [i \in 1..Len(wb.SheetNames) |-> SheetInfoOf(wb, wb.SheetNames[i])]

(***************************************************************************)
(* The per-sheet checks of analyzeWorkbook's loop body.                    *)
(***************************************************************************)
\* limitedRange: the used range cut to the row and column limits
LimitedRange(range) ==
    LET totalRows == range.e.r - range.s.r + 1
        totalCols == range.e.c - range.s.c + 1
        maxRow == IF totalRows > MAX_ROWS_PER_SHEET
                  THEN range.s.r + MAX_ROWS_PER_SHEET - 1 ELSE range.e.r
        maxCol == IF totalCols > MAX_COLS_PER_SHEET
                  THEN range.s.c + MAX_COLS_PER_SHEET - 1 ELSE range.e.c
    IN  [s |-> [r |-> range.s.r, c |-> range.s.c], e |-> [r |-> maxRow, c |-> maxCol]]

\* mutant: one finding for the rows and one for the columns
RowColLimitFindingsPerLimit(range, sheetName) ==
    LET totalRows == range.e.r - range.s.r + 1
        totalCols == range.e.c - range.s.c + 1
        One(limit) ==
            Finding("warning", "Processing Limits", sheetName, <<>>, <<>>, <<>>,
                Tpl("Sheet exceeds processing limits",
                    <<sheetName, limit,
                      NumText(MAX_ROWS_PER_SHEET), NumText(MAX_COLS_PER_SHEET)>>),
                Tpl("Consider splitting large sheets", <<>>))
    IN  (IF totalRows > MAX_ROWS_PER_SHEET
         THEN <<One(NumText(totalRows) \o " rows (limit: "
                    \o NumText(MAX_ROWS_PER_SHEET) \o ")")>>
         ELSE <<>>)
        \o
        (IF totalCols > MAX_COLS_PER_SHEET
         THEN <<One(NumText(totalCols) \o " columns (limit: "
                    \o NumText(MAX_COLS_PER_SHEET) \o ")")>>
         ELSE <<>>)

RowColLimitFindings(range, sheetName) ==
    LET totalRows == range.e.r - range.s.r + 1
        totalCols == range.e.c - range.s.c + 1
        rowsExceeded == totalRows > MAX_ROWS_PER_SHEET
        colsExceeded == totalCols > MAX_COLS_PER_SHEET
        limits ==
            (IF rowsExceeded
             THEN <<NumText(totalRows) \o " rows (limit: " \o NumText(MAX_ROWS_PER_SHEET) \o ")">>
             ELSE <<>>)
            \o
            (IF colsExceeded
             THEN <<NumText(totalCols) \o " columns (limit: " \o NumText(MAX_COLS_PER_SHEET) \o ")">>
             ELSE <<>>)
    IN  IF rowsExceeded \/ colsExceeded
        THEN << Finding("warning", "Processing Limits", sheetName, <<>>, <<>>, <<>>,
                    Tpl("Sheet exceeds processing limits",
                        <<sheetName, Join(limits, ", "),
                          NumText(MAX_ROWS_PER_SHEET), NumText(MAX_COLS_PER_SHEET)>>),
                    Tpl("Consider splitting large sheets", <<>>)) >>
        ELSE <<>>

\* a value stored in headerCounts: the number n, or a string that is not a
\* number (the text of an inherited member with "1" appended)
Count(n) == [isNumber |-> TRUE, n |-> n]
NotANumber == [isNumber |-> FALSE, n |-> 0]

\* (headerCounts[value] || 0) + 1
NextCount(headerCounts, value) ==
    IF ObjHas(headerCounts, value)
    THEN IF ObjGet(headerCounts, value).isNumber
         THEN Count(ObjGet(headerCounts, value).n + 1)
         ELSE NotANumber
    ELSE IF Inherits(headerCounts, value) THEN NotANumber
    ELSE Count(1)

\* headerCounts after counting the non-blank header values in column order
RECURSIVE CountHeaders(_, _)
CountHeaders(values, headerCounts) ==
    IF values = <<>> THEN headerCounts
    ELSE CountHeaders(Tail(values),
             ObjAssign(headerCounts, Head(values), NextCount(headerCounts, Head(values))))

IsBlankHeader(h) == Trim(h.value) = <<>>
IsNamedHeader(h) == Trim(h.value) # <<>>
HeaderValues(hs) == [i \in 1..Len(hs) |-> hs[i].value]
HeaderLetters(hs) == [i \in 1..Len(hs) |-> getColumnLetter(hs[i].col)]

\* the header loop over the columns of limitedRange, on the row range.s.r:
\* a column goes to emptyHeaders when its trimmed value is empty, and to
\* headers and headerCounts otherwise
HeaderScan(ws, range, limitedRange) ==
    LET n == limitedRange.e.c - limitedRange.s.c + 1
        all == [i \in 1..n |->
                   [col |-> limitedRange.s.c + i - 1,
                    value |-> HeaderText(ws, range.s.r, limitedRange.s.c + i - 1)]]
        headers == HeaderValues(SelectSeq(all, IsNamedHeader))
    IN  [headers |-> headers,
         emptyHeaders |-> HeaderLetters(SelectSeq(all, IsBlankHeader)),
         headerCounts |-> CountHeaders(headers, <<>>)]

\* count > 1, false for a string that is not a number
CountAbove1(e) == e[2].isNumber /\ e[2].n > 1
EntryTexts(es) == [i \in 1..Len(es) |-> Text(es[i][1])]

\* mutant: the header row counts as missing when the blank headers are as
\* many as the columns of the whole used range
HeaderFindingsWholeRange(ws, range, limitedRange, sheetName) ==
    LET scan == HeaderScan(ws, range, limitedRange)
        emptyHeaders == scan.emptyHeaders
        duplicates == EntryTexts(SelectSeq(ObjectEntries(scan.headerCounts), CountAbove1))
    IN  (IF Len(emptyHeaders) = range.e.c - range.s.c + 1
         THEN << Finding("error", "Header Quality", sheetName, <<>>, <<>>, <<>>,
                     Tpl("Missing header row - first row is completely blank", <<>>),
                     Tpl("Add descriptive column headers in the first row.", <<>>)) >>
         ELSE IF Len(emptyHeaders) > 0
         THEN << Finding("warning", "Header Quality", sheetName,
                     <<Join(emptyHeaders, ", ")>>, <<>>, <<>>,
                     Tpl("Empty column headers in columns", <<Join(emptyHeaders, ", ")>>),
                     Tpl("Add headers to all columns for better data clarity.", <<>>)) >>
         ELSE <<>>)
        \o
        (IF Len(duplicates) > 0
         THEN << Finding("warning", "Header Quality", sheetName, <<>>, <<>>, <<>>,
                     Tpl("Duplicate column headers", <<Join(duplicates, ", ")>>),
                     Tpl("Rename duplicate headers to ensure unique column identifiers.", <<>>)) >>
         ELSE <<>>)

HeaderFindings(ws, range, limitedRange, sheetName) ==
    LET scan == HeaderScan(ws, range, limitedRange)
        emptyHeaders == scan.emptyHeaders
        duplicates == EntryTexts(SelectSeq(ObjectEntries(scan.headerCounts), CountAbove1))
    IN  (IF Len(emptyHeaders) = limitedRange.e.c - limitedRange.s.c + 1
         THEN << Finding("error", "Header Quality", sheetName, <<>>, <<>>, <<>>,
                     Tpl("Missing header row - first row is completely blank", <<>>),
                     Tpl("Add descriptive column headers in the first row.", <<>>)) >>
         ELSE IF Len(emptyHeaders) > 0
         THEN << Finding("warning", "Header Quality", sheetName,
                     <<Join(emptyHeaders, ", ")>>, <<>>, <<>>,
                     Tpl("Empty column headers in columns", <<Join(emptyHeaders, ", ")>>),
                     Tpl("Add headers to all columns for better data clarity.", <<>>)) >>
         ELSE <<>>)
        \o
        (IF Len(duplicates) > 0
         THEN << Finding("warning", "Header Quality", sheetName, <<>>, <<>>, <<>>,
                     Tpl("Duplicate column headers", <<Join(duplicates, ", ")>>),
                     Tpl("Rename duplicate headers to ensure unique column identifiers.", <<>>)) >>
         ELSE <<>>)

\* mutant: a sheet with fewer than three data rows counts as empty
EmptyDataFindingsFewRows(range, sheetName) ==
    IF range.e.r - range.s.r <= 2
    THEN << Finding("warning", "Empty Data", sheetName, <<>>, <<>>, <<>>,
                Tpl("Sheet contains only header row with no data rows", <<>>),
                Tpl("Add data rows or remove empty sheet if not needed.", <<>>)) >>
    ELSE <<>>

EmptyDataFindings(range, sheetName) ==
    IF range.e.r = range.s.r
    THEN << Finding("warning", "Empty Data", sheetName, <<>>, <<>>, <<>>,
                Tpl("Sheet contains only header row with no data rows", <<>>),
                Tpl("Add data rows or remove empty sheet if not needed.", <<>>)) >>
    ELSE <<>>

\* the cells the sheet stores inside rows r1..r2 and columns c1..c2
CellsWithin(ws, r1, r2, c1, c2) ==
    {a \in DOMAIN ws.cells : a[1] >= r1 /\ a[1] <= r2 /\ a[2] >= c1 /\ a[2] <= c2}

\* a set of addresses in the order of "for row ... for col ..."
RECURSIVE RowMajor(_)
RowMajor(addrs) ==
    IF addrs = {} THEN <<>>
    ELSE LET a == CHOOSE x \in addrs :
                      \A y \in addrs : x[1] < y[1] \/ (x[1] = y[1] /\ x[2] <= y[2])
         IN  <<a>> \o RowMajor(addrs \ {a})

IsExcelError(cs) == \E i \in 1..Len(EXCEL_ERRORS) : EXCEL_ERRORS[i] = cs

\* the errorCells pushed for one cell: none or one {ref, error}
ErrorCellOf(ws, a) ==
    LET cell == ws.cells[a]
        ref == EncodeCell(a[1], a[2])
    IN  IF cell.t = "e"
        THEN << [ref |-> ref,
                 error |-> IF cell.w # <<>> THEN cell.w ELSE StringOf(cell)] >>
        ELSE IF cell.vk = "str" /\ IsExcelError(cell.vs)
        THEN << [ref |-> ref, error |-> cell.vs] >>
        ELSE <<>>

RECURSIVE ErrorCellsLoop(_, _)
ErrorCellsLoop(ws, addrs) ==
    IF addrs = <<>> THEN <<>>
    ELSE ErrorCellOf(ws, Head(addrs)) \o ErrorCellsLoop(ws, Tail(addrs))

ErrorCells(ws, limitedRange) ==
    ErrorCellsLoop(ws, RowMajor(CellsWithin(ws, limitedRange.s.r, limitedRange.e.r,
                                            limitedRange.s.c, limitedRange.e.c)))

\* mutant: every error cell starts a group of its own
GroupErrorsPerCell(errorCells, errorGroups) ==
    errorGroups \o [i \in 1..Len(errorCells) |-> <<errorCells[i].error, <<errorCells[i].ref>>>>]

RECURSIVE GroupErrors(_, _)
GroupErrors(errorCells, errorGroups) ==
    IF errorCells = <<>> THEN errorGroups
    ELSE LET ec == Head(errorCells)
         IN  GroupErrors(Tail(errorCells),
                 ObjSet(errorGroups, ec.error,
                     Append(IF ObjHas(errorGroups, ec.error)
                            THEN ObjGet(errorGroups, ec.error) ELSE <<>>, ec.ref)))

\* errorGroups[error].push(ref) on an inherited member, which is truthy and
\* has no push: TypeError
ErrorScanThrows(ws, limitedRange) ==
    LET errorCells == ErrorCells(ws, limitedRange)
    IN  \E i \in 1..Len(errorCells) : errorCells[i].error \in PrototypeKeys

getErrorSuggestion(error) ==
    IF IsExcelError(error)
    THEN Tpl("suggestions[" \o Text(error) \o "]", <<>>)
    ELSE Tpl("Review and fix the formula error.", <<>>)

ErrorGroupFinding(entry, sheetName) ==
    LET error == entry[1]
        refs == entry[2]
        displayRefs ==
            IF Len(refs) > 10
            THEN Join(SubSeq(refs, 1, 10), ", ") \o " and " \o NumText(Len(refs) - 10) \o " more"
            ELSE Join(refs, ", ")
    IN  Finding("error", "Formula Errors", sheetName, <<>>, <<displayRefs>>, <<>>,
            Tpl("cell(s) contain error", <<NumText(Len(refs)), Text(error), displayRefs>>),
            getErrorSuggestion(error))

ErrorFindings(ws, limitedRange, sheetName) ==
    LET entries == ObjectEntries(GroupErrors(ErrorCells(ws, limitedRange), <<>>))
    IN  [i \in 1..Len(entries) |-> ErrorGroupFinding(entries[i], sheetName)]

(***************************************************************************)
(* analyzeDataTypeAnomalies                                                *)
(***************************************************************************)
\* Math.round(a / b * 100)
RoundPercent(a, b) == (200 * a + b) \div (2 * b)

HasValue(ws, a) == ws.cells[a].vk # "undef"

\* mutant: the header row is collected with the data rows
ColumnValueAddrsWithHeader(ws, range, col) ==
    LET maxDataRow == Min(range.e.r, range.s.r + MAX_ROWS_PER_SHEET)
    IN  RowMajor({a \in CellsWithin(ws, range.s.r, maxDataRow, col, col) :
                      HasValue(ws, a)})

\* the values collected for one column: the stored cells with a value in rows
\* range.s.r + 1 .. min(range.e.r, range.s.r + MAX_ROWS_PER_SHEET), top down
ColumnValueAddrs(ws, range, col) ==
    LET maxDataRow == Min(range.e.r, range.s.r + MAX_ROWS_PER_SHEET)
    IN  RowMajor({a \in CellsWithin(ws, range.s.r + 1, maxDataRow, col, col) :
                      HasValue(ws, a)})

\* mutant: a fifth of the values is enough
TextDateFiresFromFifth(textDateCount, n) == textDateCount > 0 /\ 5 * textDateCount >= n

\* textDateCount > 0 && textDateCount / values.length > 0.2
TextDateFires(textDateCount, n) == textDateCount > 0 /\ 5 * textDateCount > n

\* mutant: half of the values is enough
MixedFiresFromHalf(numericCount, stringCount, n) ==
    2 * numericCount >= n /\ 5 * stringCount > n

\* numericCount > values.length * 0.5 && stringCount > values.length * 0.2
MixedFires(numericCount, stringCount, n) ==
    2 * numericCount > n /\ 5 * stringCount > n

ColumnAnomalies(ws, range, sheetName, col) ==
    LET headerValue == HeaderText(ws, range.s.r, col)
        colLetter == getColumnLetter(col)
        label == IF headerValue # <<>> THEN Text(headerValue) ELSE colLetter
        values == ColumnValueAddrs(ws, range, col)
        n == Len(values)
        textDateCount ==
            Cardinality({i \in 1..n : /\ ws.cells[values[i]].vk = "str"
                                      /\ MatchesDatePattern(ws.cells[values[i]].vs)})
        numericCount == Cardinality({i \in 1..n : ws.cells[values[i]].t = "n"})
        stringCount == Cardinality({i \in 1..n : ws.cells[values[i]].t = "s"})
    IN  IF n < 5 THEN <<>>
        ELSE (IF TextDateFires(textDateCount, n)
              THEN << Finding("warning", "Data Type Anomaly", sheetName, <<label>>, <<>>, <<>>,
                          Tpl("values appear to be text-formatted dates",
                              <<NumText(textDateCount),
                                NumText(RoundPercent(textDateCount, n))>>),
                          Tpl("Convert text dates to proper Excel date format", <<>>)) >>
              ELSE <<>>)
             \o
             (IF MixedFires(numericCount, stringCount, n)
              THEN << Finding("warning", "Data Type Anomaly", sheetName, <<label>>, <<>>, <<>>,
                          Tpl("Mixed data types",
                              <<NumText(numericCount), NumText(stringCount)>>),
                          Tpl("Standardize column data types", <<>>)) >>
              ELSE <<>>)

\* the findings of columns c1..c2 in column order (the columns are split in
\* halves to keep the evaluation shallow)
RECURSIVE AnomalyLoop(_, _, _, _, _)
AnomalyLoop(ws, range, sheetName, c1, c2) ==
    IF c1 > c2 THEN <<>>
    ELSE IF c1 = c2 THEN ColumnAnomalies(ws, range, sheetName, c1)
    ELSE LET m == (c1 + c2) \div 2
         IN  AnomalyLoop(ws, range, sheetName, c1, m)
             \o AnomalyLoop(ws, range, sheetName, m + 1, c2)

analyzeDataTypeAnomalies(ws, range, sheetName) ==
    AnomalyLoop(ws, range, sheetName, range.s.c, range.e.c)

(***************************************************************************)
(* detectDuplicateKeys                                                     *)
(***************************************************************************)
RECURSIVE CountValues(_, _, _)
CountValues(ws, addrs, valueCounts) ==
    IF addrs = <<>> THEN valueCounts
    ELSE LET a == Head(addrs)
             value == StringOf(ws.cells[a])
         IN  CountValues(ws, Tail(addrs),
                 ObjSet(valueCounts, value,
                     Append(IF ObjHas(valueCounts, value)
                            THEN ObjGet(valueCounts, value) ELSE <<>>, a[1] + 1)))

\* valueCounts[value].push(row + 1) on an inherited member: TypeError
DuplicateKeysThrows(ws, range, keyColumn) ==
    LET addrs == ColumnValueAddrs(ws, range, keyColumn.columnIndex)
    IN  \E i \in 1..Len(addrs) : StringOf(ws.cells[addrs[i]]) \in PrototypeKeys

RowsAbove1(e) == Len(e[2]) > 1

DuplicateGroups(ws, range, columnIndex) ==
    SelectSeq(ObjectEntries(CountValues(ws, ColumnValueAddrs(ws, range, columnIndex), <<>>)),
              RowsAbove1)

RECURSIVE SumRows(_)
SumRows(duplicates) ==
    IF duplicates = <<>> THEN 0 ELSE Len(Head(duplicates)[2]) + SumRows(Tail(duplicates))

RECURSIVE FlatRows(_)
FlatRows(duplicates) ==
    IF duplicates = <<>> THEN <<>> ELSE Head(duplicates)[2] \o FlatRows(Tail(duplicates))

NumTexts(ns) == [i \in 1..Len(ns) |-> NumText(ns[i])]

DisplayDuplicate(d) ==
    "\"" \o Text(d[1]) \o "\" (rows "
    \o Join(NumTexts(SubSeq(d[2], 1, Min(3, Len(d[2])))), ", ")
    \o (IF Len(d[2]) > 3 THEN "..." ELSE "") \o ")"

detectDuplicateKeys(ws, range, keyColumn) ==
    LET duplicates == DuplicateGroups(ws, range, keyColumn.columnIndex)
        shown == SubSeq(duplicates, 1, Min(5, Len(duplicates)))
        displayDuplicates == [i \in 1..Len(shown) |-> DisplayDuplicate(shown[i])]
    IN  IF Len(duplicates) > 0
        THEN << Finding("error", "Duplicate Keys", keyColumn.sheet, <<keyColumn.column>>,
                    <<>>, <<FlatRows(duplicates)>>,
                    Tpl("duplicate values found affecting rows",
                        <<NumText(Len(duplicates)), NumText(SumRows(duplicates)),
                          Join(displayDuplicates, "; ")
                          \o (IF Len(duplicates) > 5
                              THEN " and " \o NumText(Len(duplicates) - 5) \o " more"
                              ELSE "")>>),
                    Tpl("Remove or fix duplicate key values to ensure data integrity.", <<>>)) >>
        ELSE <<>>

(***************************************************************************)
(* findPotentialKeyColumns and generatePreview                             *)
(***************************************************************************)
\* KEY_COLUMN_PATTERNS: the names between ^( and )$, matched with the flag i
KEY_COLUMN_PATTERNS ==
    { <<"i", "d">>, <<"_", "i", "d">>, <<"s", "k", "u">>,
      <<"o", "r", "d", "e", "r">>, <<"e", "m", "a", "i", "l">>,
      <<"o", "r", "d", "e", "r", "_", "i", "d">>, <<"o", "r", "d", "e", "r", "i", "d">>,
      <<"u", "s", "e", "r", "_", "i", "d">>, <<"u", "s", "e", "r", "i", "d">>,
      <<"p", "r", "o", "d", "u", "c", "t", "_", "i", "d">>,
      <<"p", "r", "o", "d", "u", "c", "t", "i", "d">> }

\* KEY_COLUMN_PATTERNS.test(headerValue)
TestKeyPattern(headerValue) ==
    [i \in 1..Len(headerValue) |-> ToLower(headerValue[i])] \in KEY_COLUMN_PATTERNS

\* mutant: the first five values of the column, wherever they are
SampleValuesOfColumn(ws, range, col) ==
    LET addrs == RowMajor({a \in CellsWithin(ws, range.s.r + 1, range.e.r, col, col) :
                              HasValue(ws, a)})
    IN  [i \in 1..Min(5, Len(addrs)) |-> Text(StringOf(ws.cells[addrs[i]]))]

\* sampleValues: String(cell.v) of the cells with a value in the first five
\* data rows
SampleValues(ws, range, col) ==
    LET addrs == RowMajor({a \in CellsWithin(ws, range.s.r + 1,
                                             Min(range.s.r + 5, range.e.r), col, col) :
                              HasValue(ws, a)})
    IN  [i \in 1..Len(addrs) |-> Text(StringOf(ws.cells[addrs[i]]))]

\* the candidates of one sheet, in column order
SheetCandidates(wb, sheetName) ==
    LET ws == wb.Sheets[sheetName]
        range == DecodeRange(ws)
        cols == [i \in 1..(range.e.c - range.s.c + 1) |-> range.s.c + i - 1]
        matching == SelectSeq(cols, LAMBDA col : TestKeyPattern(HeaderText(ws, range.s.r, col)))
    IN  [i \in 1..Len(matching) |->
            [sheet |-> sheetName,
             column |-> Text(HeaderText(ws, range.s.r, matching[i])),
             columnIndex |-> matching[i],
             sampleValues |-> SampleValues(ws, range, matching[i])]]

RECURSIVE CandidatesLoop(_, _)
CandidatesLoop(wb, sheetNames) ==
    IF sheetNames = <<>> THEN <<>>
    ELSE SheetCandidates(wb, Head(sheetNames)) \o CandidatesLoop(wb, Tail(sheetNames))

findPotentialKeyColumns(wb) == CandidatesLoop(wb, wb.SheetNames)

generatePreview(wb, id, name, fileSize) ==
    LET potentialKeyColumns == findPotentialKeyColumns(wb)
    IN  [fileId |-> id, fileName |-> name, fileSize |-> fileSize,
         sheets |-> getSheetInfo(wb),
         potentialKeyColumns |-> potentialKeyColumns,
         checksToRun |->
             <<"Workbook integrity check", "Hidden sheets detection",
               "Header quality analysis", "Empty data detection",
               "Formula error scanning", "Excel error value detection",
               "Data type anomaly detection">>
             \o (IF Len(potentialKeyColumns) > 0
                 THEN <<"Duplicate key detection">> ELSE <<>>)]

(***************************************************************************)
(* calculateScore and the result record                                    *)
(***************************************************************************)
CountSeverity(fs, severity) == Cardinality({j \in 1..Len(fs) : fs[j].severity = severity})

IsError(f) == f.severity = "error"
IsWarning(f) == f.severity = "warning"
IsInfo(f) == f.severity = "info"

NotError(f) == f.severity # "error"

ErrorCount(fs) == Len(SelectSeq(fs, IsError))

\* mutant: every finding that is no error counts as a warning
WarningCountNotError(fs) == Len(SelectSeq(fs, NotError))

WarningCount(fs) == Len(SelectSeq(fs, IsWarning))

\* mutant: Math.max for Math.min
ErrorPenaltyMax(errors) == Max(errors * 10, 70)

ErrorPenalty(errors) == Min(errors * 10, 70)

\* mutant: the cap is missing
WarningPenaltyUncapped(warnings) == warnings * 3

WarningPenalty(warnings) == Min(warnings * 3, 30)

\* the multiplication sign of the explanation text is written "x"
calculateScore(fs) ==
    LET errors == ErrorCount(fs)
        warnings == WarningCount(fs)
        errorPenalty == ErrorPenalty(errors)
        warningPenalty == WarningPenalty(warnings)
        score == Max(0, (100 - errorPenalty) - warningPenalty)
    IN  [score |-> score,
         explanation |->
             "Starting score: 100. "
             \o (IF errors > 0
                 THEN NumText(errors) \o " error(s) x 10 points = -"
                      \o NumText(errorPenalty) \o " (capped at 70). "
                 ELSE "")
             \o (IF warnings > 0
                 THEN NumText(warnings) \o " warning(s) x 3 points = -"
                      \o NumText(warningPenalty) \o " (capped at 30). "
                 ELSE "")
             \o (IF errors = 0 /\ warnings = 0 THEN "No issues found! " ELSE "")
             \o "Final score: " \o NumText(score) \o "/100."]

\* mutant: the warning filter compares with a misspelt severity
ResultRecordMisspelt(id, name, fs, shs, at) ==
    LET sc == calculateScore(fs)
    IN  [fileId |-> id,
         fileName |-> name,
         analyzedAt |-> at,
         score |-> sc.score,
         scoreExplanation |-> sc.explanation,
         errorCount |-> Len(SelectSeq(fs, IsError)),
         warningCount |-> CountSeverity(fs, "warnings"),
         infoCount |-> Len(SelectSeq(fs, IsInfo)),
         findings |-> fs,
         sheets |-> shs]

\* the object literal both analyzeWorkbook and createEmptyResult return;
\* analyzedAt is the clock reading at the time of the return
ResultRecord(id, name, fs, shs, at) ==
    LET sc == calculateScore(fs)
    IN  [fileId |-> id,
         fileName |-> name,
         analyzedAt |-> at,
         score |-> sc.score,
         scoreExplanation |-> sc.explanation,
         errorCount |-> Len(SelectSeq(fs, IsError)),
         warningCount |-> Len(SelectSeq(fs, IsWarning)),
         infoCount |-> Len(SelectSeq(fs, IsInfo)),
         findings |-> fs,
         sheets |-> shs]

(***************************************************************************)
(* Input workbooks.  Sheets are sparse: a sheet of 10001 rows stores a     *)
(* handful of cells.                                                       *)
(***************************************************************************)
\* the texts of the input cells
Txt ==
    [id |-> <<"i", "d">>,
     name |-> <<"n", "a", "m", "e">>,
     qty |-> <<"q", "t", "y">>,
     date |-> <<"d", "a", "t", "e">>,
     last |-> <<"l", "a", "s", "t">>,
     bob |-> <<"b", "o", "b">>,
     one |-> <<"1">>,
     blank |-> <<" ">>,
     slashDate |-> <<"1", "/", "2", "/", "2", "0", "2", "4">>,
     monthDate |-> <<"J", "a", "n", " ", "5">>,
     valueErr |-> <<"#", "V", "A", "L", "U", "E", "!">>,
     refErr |-> <<"#", "R", "E", "F", "!">>,
     divErr |-> <<"#", "D", "I", "V", "/", "0", "!">>,
     constructor |-> <<"c", "o", "n", "s", "t", "r", "u", "c", "t", "o", "r">>,
     upperId |-> <<"I", "d">>,
     isoDate |-> <<"2", "0", "2", "4", "-", "1", "-", "5">>,
     lowerRefErr |-> <<"#", "r", "e", "f", "!">>,
     orderId |-> <<"O", "r", "d", "e", "r", "_", "I", "D">>,
     spacedId |-> <<" ", "i", "d">>,
     sku |-> <<"S", "K", "U">>,
     empty |-> <<>>]

Rect(r1, c1, r2, c2) == [s |-> [r |-> r1, c |-> c1], e |-> [r |-> r2, c |-> c2]]
Sheet(ref, cells) == [hasRef |-> TRUE, ref |-> ref, cells |-> cells]

\* headers id, name, id; three data rows; one #VALUE! text; keys 1, 2, "1"
OrdersSheet ==
    Sheet(Rect(0, 0, 3, 2),
          (<<0, 0>> :> StrCell(Txt.id)) @@ (<<0, 1>> :> StrCell(Txt.name))
          @@ (<<0, 2>> :> StrCell(Txt.id))
          @@ (<<1, 0>> :> NumCell(1)) @@ (<<1, 1>> :> StrCell(Txt.valueErr))
          @@ (<<2, 0>> :> NumCell(2)) @@ (<<2, 1>> :> StrCell(Txt.bob))
          @@ (<<3, 0>> :> StrCell(Txt.one)))

\* no '!ref' and no cell
BareSheet == [hasRef |-> FALSE, ref |-> A1Range, cells |-> <<>>]

\* one row: id, a blank text, the number 0
HeaderOnlySheet ==
    Sheet(Rect(0, 0, 0, 2),
          (<<0, 0>> :> StrCell(Txt.id)) @@ (<<0, 1>> :> StrCell(Txt.blank))
          @@ (<<0, 2>> :> NumCell(0)))

\* used range starting at C2 (row 2, column 1); six data rows
OffsetSheet ==
    Sheet(Rect(2, 1, 8, 3),
          (<<2, 1>> :> StrCell(Txt.date)) @@ (<<2, 2>> :> StrCell(Txt.qty))
          @@ (<<2, 3>> :> StrCell(Txt.id))
          @@ (<<3, 1>> :> StrCell(Txt.slashDate)) @@ (<<4, 1>> :> StrCell(Txt.monthDate))
          @@ (<<5, 1>> :> StrCell(Txt.bob)) @@ (<<6, 1>> :> StrCell(Txt.bob))
          @@ (<<7, 1>> :> NumCell(3)) @@ (<<8, 1>> :> BoolCell(1))
          @@ (<<3, 2>> :> NumCell(1)) @@ (<<4, 2>> :> NumCell(2))
          @@ (<<5, 2>> :> NumCell(3)) @@ (<<6, 2>> :> NumCell(4))
          @@ (<<7, 2>> :> StrCell(Txt.one)) @@ (<<8, 2>> :> StrCell(Txt.bob))
          @@ (<<3, 3>> :> NumCell(10)) @@ (<<4, 3>> :> NumCell(2))
          @@ (<<5, 3>> :> NumCell(10)) @@ (<<6, 3>> :> ErrCell(7, <<>>))
          @@ (<<7, 3>> :> StubCell) @@ (<<8, 3>> :> ErrCell(7, Txt.divErr)))

\* exactly MAX_ROWS_PER_SHEET rows and MAX_COLS_PER_SHEET columns
ExactSheet ==
    Sheet(Rect(0, 0, MAX_ROWS_PER_SHEET - 1, MAX_COLS_PER_SHEET - 1),
          (<<0, 0>> :> StrCell(Txt.id))
          @@ (<<0, MAX_COLS_PER_SHEET - 1>> :> StrCell(Txt.last))
          @@ (<<1, 0>> :> NumCell(5))
          @@ (<<MAX_ROWS_PER_SHEET - 1, 0>> :> NumCell(5))
          @@ (<<MAX_ROWS_PER_SHEET - 1, MAX_COLS_PER_SHEET - 1>> :> StrCell(Txt.refErr)))

\* x rows too many: key 7 in the first and the last row inside the limit and
\* in the first row beyond it; an error cell on each side of the limit
TallSheet(x) ==
    Sheet(Rect(0, 0, MAX_ROWS_PER_SHEET + x - 1, 1),
          (<<0, 0>> :> StrCell(Txt.id)) @@ (<<0, 1>> :> StrCell(Txt.name))
          @@ (<<1, 0>> :> NumCell(7))
          @@ (<<MAX_ROWS_PER_SHEET - 1, 0>> :> NumCell(7))
          @@ (<<MAX_ROWS_PER_SHEET - 1, 1>> :> ErrCell(7, Txt.divErr))
          @@ (<<MAX_ROWS_PER_SHEET, 0>> :> NumCell(7))
          @@ (<<MAX_ROWS_PER_SHEET, 1>> :> ErrCell(23, Txt.refErr)))

\* y columns too many: the first column beyond the limit repeats the header id
\* and holds the key 5 twice and an error text
WideSheet(y) ==
    Sheet(Rect(0, 0, 3, MAX_COLS_PER_SHEET + y - 1),
          (<<0, 0>> :> StrCell(Txt.id))
          @@ (<<0, MAX_COLS_PER_SHEET - 1>> :> StrCell(Txt.last))
          @@ (<<0, MAX_COLS_PER_SHEET>> :> StrCell(Txt.id))
          @@ (<<1, 0>> :> NumCell(3)) @@ (<<2, 0>> :> NumCell(4))
          @@ (<<1, MAX_COLS_PER_SHEET>> :> NumCell(5))
          @@ (<<2, MAX_COLS_PER_SHEET>> :> NumCell(5))
          @@ (<<3, MAX_COLS_PER_SHEET>> :> StrCell(Txt.refErr)))

\* used range starting at B2, x rows and y columns too many
TallWideSheet(x, y) ==
    Sheet(Rect(1, 1, MAX_ROWS_PER_SHEET + x, MAX_COLS_PER_SHEET + y),
          (<<1, 1>> :> StrCell(Txt.id))
          @@ (<<2, 1>> :> NumCell(9))
          @@ (<<MAX_ROWS_PER_SHEET, 1>> :> NumCell(9))
          @@ (<<MAX_ROWS_PER_SHEET + 1, 1>> :> NumCell(9))
          @@ (<<2, MAX_COLS_PER_SHEET + 1>> :> StrCell(Txt.valueErr)))

\* a key column id that holds the text constructor twice
ConstructorSheet ==
    Sheet(Rect(0, 0, 2, 0),
          (<<0, 0>> :> StrCell(Txt.id)) @@ (<<1, 0>> :> StrCell(Txt.constructor))
          @@ (<<2, 0>> :> StrCell(Txt.constructor)))

SetToSeq(S) == CHOOSE q \in [1..Cardinality(S) -> S] : Range(q) = S

SheetPool ==
    <<OrdersSheet, BareSheet, HeaderOnlySheet, OffsetSheet, ExactSheet, ConstructorSheet>>
    \o SetToSeq({TallSheet(x) : x \in 1..MaxExtraRows})
    \o SetToSeq({WideSheet(y) : y \in 1..MaxExtraCols})
    \o SetToSeq({TallWideSheet(x, y) : x \in 1..MaxExtraRows, y \in 1..MaxExtraCols})

\* the sheets of the many-sheet workbooks, repeated in this order
SheetCycle == <<TallSheet(1), OrdersSheet, BareSheet, HeaderOnlySheet, OffsetSheet>>

\* variant "dash" names the first sheet "-"
SheetNameOf(i, variant) ==
    IF variant = "dash" /\ i = 1 THEN "-" ELSE "S" \o NumText(i)

\* workbook.Workbook.Sheets[..].Hidden: absent, 0, 1 (hidden) or 2 (very hidden)
PropsOf(names, variant) ==
    CASE variant = "hiddenFirst" ->
             [nm \in Range(names) |-> IF nm = names[1] THEN 1 ELSE 0]
      [] variant = "hiddenEven" ->
             [nm \in Range(names) |->
                 IF \E i \in 1..Len(names) : names[i] = nm /\ i % 2 = 0 THEN 2 ELSE 0]
      [] OTHER -> <<>>

Workbook(sheetSeq, variant) ==
    LET names == [i \in 1..Len(sheetSeq) |-> SheetNameOf(i, variant)]
    IN  [SheetNames |-> names,
         Sheets |-> [nm \in Range(names) |->
                        sheetSeq[CHOOSE i \in 1..Len(names) : names[i] = nm]],
         Props |-> PropsOf(names, variant)]

CycleSheets(n) == [i \in 1..n |-> SheetCycle[((i - 1) % Len(SheetCycle)) + 1]]

Variants == {"plain", "hiddenFirst", "hiddenEven", "dash"}

Workbooks ==
    {Workbook(<<>>, "plain")}
    \cup {Workbook(<<SheetPool[k]>>, v) : k \in 1..Len(SheetPool), v \in Variants}
    \cup {Workbook(CycleSheets(n), v) :
              n \in {MAX_SHEETS, MAX_SHEETS + 1, MAX_SHEETS + MaxExtraSheets},
              v \in Variants}
    \cup {Workbook(CycleSheets(MAX_SHEETS) \o <<ConstructorSheet>>, "plain")}

\* the optional selectedKeyColumn: <<>> or one {sheet, column, columnIndex}
KeyColumn(sheet, columnIndex) ==
    << [sheet |-> sheet, column |-> "id", columnIndex |-> columnIndex] >>

KeyColumnsFor(wb) ==
    {<<>>}
    \cup {KeyColumn("Missing", 0)}
    \cup (IF wb.SheetNames = <<>> THEN {}
          ELSE {KeyColumn(wb.SheetNames[1], 0), KeyColumn(wb.SheetNames[1], 3),
                KeyColumn(wb.SheetNames[1], MAX_COLS_PER_SHEET),
                KeyColumn(wb.SheetNames[Len(wb.SheetNames)], 0)})

(***************************************************************************)
(* Small sheets for the per-sheet checks: a table is a sequence of rows,   *)
(* each a sequence of optional cells (<<>> where the sheet stores none);   *)
(* its used range starts at A1.                                            *)
(***************************************************************************)
TableSheet(rows) ==
    Sheet(Rect(0, 0, Len(rows) - 1, Len(rows[1]) - 1),
          [a \in {x \in (0..(Len(rows) - 1)) \X (0..(Len(rows[1]) - 1)) :
                      rows[x[1] + 1][x[2] + 1] # <<>>}
              |-> rows[a[1] + 1][a[2] + 1][1]])

ColumnSheet(cells) == TableSheet([i \in 1..Len(cells) |-> <<cells[i]>>])

\* the sequences over S of length 1..n
Rows(S, n) == UNION {[1..k -> S] : k \in 1..n}

\* header cells: none, a blank text, id, Id, the number 0, constructor, "1"
HeaderCells ==
    { <<>>, <<StrCell(Txt.blank)>>, <<StrCell(Txt.id)>>, <<StrCell(Txt.upperId)>>,
      <<NumCell(0)>>, <<StrCell(Txt.constructor)>>, <<StrCell(Txt.one)>> }

\* the header row id, name, qty, date, last with two of its cells replaced
FiveColumnRows ==
    LET base == <<Txt.id, Txt.name, Txt.qty, Txt.date, Txt.last>>
    IN  {[i \in 1..5 |-> IF i = p THEN x ELSE IF i = q THEN y ELSE <<StrCell(base[i])>>] :
            p \in 1..4, q \in 2..5, x \in HeaderCells, y \in HeaderCells}

\* a header row above two rows of numbers
HeaderSheet(hdr) ==
    TableSheet(<<hdr, [i \in 1..Len(hdr) |-> <<NumCell(i)>>],
                      [i \in 1..Len(hdr) |-> <<NumCell(10 + i)>>]>>)

\* the enumerated header rows, and a sheet of MAX_COLS_PER_SHEET + 1 columns
\* whose only header cell is in the last column
HeaderSheets ==
    {HeaderSheet(hdr) : hdr \in Rows(HeaderCells, MaxHeaders) \cup FiveColumnRows}
    \cup {Sheet(Rect(0, 0, 2, MAX_COLS_PER_SHEET),
                (<<0, MAX_COLS_PER_SHEET>> :> StrCell(Txt.id)) @@ (<<1, 0>> :> NumCell(1)))}

\* the values of a key column: 1, 2, "1", constructor, a cell without a
\* value, no cell
KeyCells ==
    { <<NumCell(1)>>, <<NumCell(2)>>, <<StrCell(Txt.one)>>, <<StrCell(Txt.constructor)>>,
      <<StubCell>>, <<>> }

Numbers(ns) == [i \in 1..Len(ns) |-> <<NumCell(ns[i])>>]

\* a column id with enumerated values, with the values 1, 2, 1, 3, 2, 2, or
\* with six duplicated values, one of them in four rows
KeySheets ==
    {ColumnSheet(<<<<StrCell(Txt.id)>>>> \o vals) :
        vals \in Rows(KeyCells, MaxKeyRows)
                 \cup {Numbers(<<1, 2, 1, 3, 2, 2>>),
                       Numbers(<<6, 5, 4, 3, 2, 1, 6, 5, 4, 3, 2, 1, 6, 6>>)}}

\* cells for the error scan: none, the texts #REF! and #DIV/0!, an error cell
\* formatted #REF!, an error cell without formatted text, the text #ref!
ErrorScanCells ==
    { <<>>, <<StrCell(Txt.refErr)>>, <<StrCell(Txt.divErr)>>, <<ErrCell(23, Txt.refErr)>>,
      <<ErrCell(7, <<>>)>>, <<StrCell(Txt.lowerRefErr)>> }

\* a column of enumerated cells from its first row on, or twelve #REF! texts
ErrorSheets ==
    {ColumnSheet(cells) :
        cells \in Rows(ErrorScanCells, MaxErrorRows)
                  \cup {[i \in 1..12 |-> <<StrCell(Txt.refErr)>>]}}

\* a column with d date texts, n numbers, t other texts and b booleans
DateColumn(d, n, t, b) ==
    LET dates == <<Txt.slashDate, Txt.monthDate, Txt.isoDate>>
    IN  ColumnSheet(<<<<StrCell(Txt.date)>>>>
                    \o [i \in 1..d |-> <<StrCell(dates[(i % 3) + 1])>>]
                    \o [i \in 1..n |-> <<NumCell(i)>>]
                    \o [i \in 1..t |-> <<StrCell(Txt.bob)>>]
                    \o [i \in 1..b |-> <<BoolCell(i % 2)>>])

\* and a column of three numbers and two date texts, the second one in the
\* last row inside the row limit or in the first row beyond it
DateSheets ==
    {DateColumn(d, n, t, b) :
        d \in 0..MaxDates,
        n \in 0..MaxOthers, t \in 0..MaxOthers, b \in {0, MaxOthers}}
    \cup {Sheet(Rect(0, 0, MAX_ROWS_PER_SHEET, 0),
                (<<0, 0>> :> StrCell(Txt.date)) @@ (<<1, 0>> :> NumCell(1))
                @@ (<<2, 0>> :> NumCell(2)) @@ (<<3, 0>> :> NumCell(3))
                @@ (<<4, 0>> :> StrCell(Txt.slashDate))
                @@ (<<k, 0>> :> StrCell(Txt.monthDate))) :
              k \in {MAX_ROWS_PER_SHEET - 1, MAX_ROWS_PER_SHEET}}

\* uuidv4(): the k-th identifier drawn from the random source in state seed
Uuid(seed, k) == "uuid-" \o NumText(seed) \o "-" \o NumText(k)

\* findings.push(...) for each new finding in turn, each with a fresh uuid
Push(fs, new) ==
    fs \o [i \in 1..Len(new) |-> [new[i] EXCEPT !.id = Uuid(uuidSeed, Len(fs) + i)]]

\* mutant: the slice keeps one sheet too many
sheetsToProcessOneMore ==
    SubSeq(workbook.SheetNames, 1, Min(MAX_SHEETS + 1, Len(workbook.SheetNames)))

sheetsToProcess == SubSeq(workbook.SheetNames, 1, Min(MAX_SHEETS, Len(workbook.SheetNames)))

createEmptyResult(id, name, fs, shs) == ResultRecord(id, name, fs, shs, now)

AnalysisResultOf(id, name, fs, shs) == ResultRecord(id, name, fs, shs, now)

\* mutant: the finding is pushed as a warning
NoSheetsAsWarning ==
    Finding("warning", "Workbook Integrity", "-", <<>>, <<>>, <<>>,
        Tpl("No sheets found in workbook", <<>>),
        Tpl("Ensure the Excel file contains at least one worksheet with data.", <<>>))

NoSheetsFinding ==
    Finding("error", "Workbook Integrity", "-", <<>>, <<>>, <<>>,
        Tpl("No sheets found in workbook", <<>>),
        Tpl("Ensure the Excel file contains at least one worksheet with data.", <<>>))

\* mutant: the suggestion joins workbook.SheetNames, not the slice
SheetLimitFindingsAllNames(wb) ==
    IF Len(wb.SheetNames) > MAX_SHEETS
    THEN << Finding("warning", "Processing Limits", "-", <<>>, <<>>, <<>>,
                Tpl("Workbook contains sheets. Only the first will be analyzed",
                    <<NumText(Len(wb.SheetNames)), NumText(MAX_SHEETS)>>),
                Tpl("Consider splitting your workbook. Only sheets will be processed",
                    <<Join(wb.SheetNames, ", ")>>)) >>
    ELSE <<>>

SheetLimitFindings(wb) ==
    IF Len(wb.SheetNames) > MAX_SHEETS
    THEN << Finding("warning", "Processing Limits", "-", <<>>, <<>>, <<>>,
                Tpl("Workbook contains sheets. Only the first will be analyzed",
                    <<NumText(Len(wb.SheetNames)), NumText(MAX_SHEETS)>>),
                Tpl("Consider splitting your workbook. Only sheets will be processed",
                    <<Join(SubSeq(wb.SheetNames, 1, MAX_SHEETS), ", ")>>)) >>
    ELSE <<>>

SheetIsHidden(sh) == sh.isHidden
SheetNamesOf(shs) == [i \in 1..Len(shs) |-> shs[i].name]

\* mutant: one finding for each hidden sheet
HiddenSheetFindingsPerSheet(shs) ==
    LET hiddenSheets == SelectSeq(shs, SheetIsHidden)
    IN  [i \in 1..Len(hiddenSheets) |->
            Finding("warning", "Hidden Sheets", hiddenSheets[i].name, <<>>, <<>>, <<>>,
                Tpl("hidden sheet(s) found", <<"1", hiddenSheets[i].name>>),
                Tpl("Review hidden sheets for important data that may be overlooked.",
                    <<>>))]

HiddenSheetFindings(shs) ==
    LET hiddenSheets == SelectSeq(shs, SheetIsHidden)
        names == Join(SheetNamesOf(hiddenSheets), ", ")
    IN  IF Len(hiddenSheets) > 0
        THEN << Finding("warning", "Hidden Sheets", names, <<>>, <<>>, <<>>,
                    Tpl("hidden sheet(s) found", <<NumText(Len(hiddenSheets)), names>>),
                    Tpl("Review hidden sheets for important data that may be overlooked.",
                        <<>>)) >>
        ELSE <<>>

\* mutant: any selected key column applies to every sheet
KeyColumnAppliesToAll(keyColumn, sheetName) == keyColumn # <<>>

\* selectedKeyColumn && selectedKeyColumn.sheet === sheetName
KeyColumnApplies(keyColumn, sheetName) ==
    keyColumn # <<>> /\ keyColumn[1].sheet = sheetName

\* the iteration for this sheet ends in a TypeError
SheetThrows(wb, sheetName, keyColumn) ==
    LET ws == wb.Sheets[sheetName]
        limitedRange == LimitedRange(DecodeRange(ws))
    IN  \/ ErrorScanThrows(ws, limitedRange)
        \/ /\ KeyColumnApplies(keyColumn, sheetName)
           /\ DuplicateKeysThrows(ws, limitedRange, keyColumn[1])

\* the findings pushed by an iteration that throws, up to the throw
SheetFindingsUntilThrow(wb, sheetName, keyColumn) ==
    LET ws == wb.Sheets[sheetName]
        range == DecodeRange(ws)
        limitedRange == LimitedRange(range)
    IN  RowColLimitFindings(range, sheetName)
        \o HeaderFindings(ws, range, limitedRange, sheetName)
        \o EmptyDataFindings(range, sheetName)
        \o (IF ErrorScanThrows(ws, limitedRange) THEN <<>>
            ELSE ErrorFindings(ws, limitedRange, sheetName)
                 \o analyzeDataTypeAnomalies(ws, limitedRange, sheetName))

\* mutant: the findings of a sheet are pushed errors first
SheetFindingsBySeverity(wb, sheetName, keyColumn) ==
    LET ws == wb.Sheets[sheetName]
        range == DecodeRange(ws)
        limitedRange == LimitedRange(range)
        fs == RowColLimitFindings(range, sheetName)
              \o HeaderFindings(ws, range, limitedRange, sheetName)
              \o EmptyDataFindings(range, sheetName)
              \o ErrorFindings(ws, limitedRange, sheetName)
              \o analyzeDataTypeAnomalies(ws, limitedRange, sheetName)
              \o (IF KeyColumnApplies(keyColumn, sheetName)
                  THEN detectDuplicateKeys(ws, limitedRange, keyColumn[1])
                  ELSE <<>>)
    IN  SelectSeq(fs, IsError) \o SelectSeq(fs, NotError)

\* the findings of one iteration of the sheet loop that does not throw, in
\* push order
SheetFindings(wb, sheetName, keyColumn) ==
    LET ws == wb.Sheets[sheetName]
        range == DecodeRange(ws)
        limitedRange == LimitedRange(range)
    IN  RowColLimitFindings(range, sheetName)
        \o HeaderFindings(ws, range, limitedRange, sheetName)
        \o EmptyDataFindings(range, sheetName)
        \o ErrorFindings(ws, limitedRange, sheetName)
        \o analyzeDataTypeAnomalies(ws, limitedRange, sheetName)
        \o (IF KeyColumnApplies(keyColumn, sheetName)
            THEN detectDuplicateKeys(ws, limitedRange, keyColumn[1])
            ELSE <<>>)

----------------------------------------------------------------------------
(***************************************************************************)
(* analyzeWorkbook, one action per stage of the pipeline.                  *)
(***************************************************************************)
IdleScore == scoreArg = <<>> /\ scoreRet = <<>> /\ scorePrev = <<>>
\* the services as the modules leave them when they are loaded, before any
\* request
IdleRoutes ==
    /\ rateLimitStore = EmptyMap
    /\ served = EmptyMap
    /\ fileStore = EmptyMap
    /\ tmpFiles = EmptyMap
    /\ r2Bucket = [configured |-> FALSE, objects |-> EmptyMap]
    /\ stripeSessions = EmptyMap
    /\ cookie = <<>>
    /\ request = <<>>
    /\ response = <<>>
    /\ routeCall = <<>>
IdleOthers == preview = <<>> /\ letterCall = <<>> /\ IdleRoutes

Init ==
    /\ workbook \in Workbooks
    /\ selectedKeyColumn \in KeyColumnsFor(workbook)
    /\ fileId = "file-1"
    /\ fileName = "book.xlsx"
    /\ pc = "start"
    /\ sheets = <<>>
    /\ findings = <<>>
    /\ sheetIdx = 0
    /\ processed = <<>>
    /\ result = <<>>
    /\ prevResult = <<>>
    /\ uuidSeed = 0
    /\ now = 0
    /\ IdleScore
    /\ IdleOthers

\* time passes and the random source moves on between two calls
Tick ==
    /\ pc = "done"
    /\ prevResult = <<>>
    /\ now < MaxClock
    /\ now' = now + 1
    /\ UNCHANGED <<otherCalls, inputVars, callVars, scoreVars>>

Reseed ==
    /\ pc = "done"
    /\ prevResult = <<>>
    /\ \E seed \in 0..MaxSeed : seed # uuidSeed /\ uuidSeed' = seed
    /\ UNCHANGED <<otherCalls, inputVars, pc, sheets, findings, sheetIdx, processed,
                   result, prevResult, now, scoreVars>>

\* parseWorkbook, getSheetInfo and check 1: a workbook without sheets returns
\* createEmptyResult at once
IntegrityCheck ==
    /\ pc = "start"
    /\ sheets' = getSheetInfo(workbook)
    /\ IF Len(workbook.SheetNames) = 0
       THEN /\ findings' = Push(<<>>, <<NoSheetsFinding>>)
            /\ result' = << createEmptyResult(fileId, fileName, findings', sheets') >>
            /\ pc' = "done"
       ELSE /\ findings' = <<>>
            /\ result' = <<>>
            /\ pc' = "limits"
    /\ sheetIdx' = 0
    /\ processed' = <<>>
    /\ UNCHANGED <<otherCalls, inputVars, prevResult, uuidSeed, now, scoreVars>>

SheetLimitCheck ==
    /\ pc = "limits"
    /\ findings' = Push(findings, SheetLimitFindings(workbook))
    /\ pc' = "hidden"
    /\ UNCHANGED <<otherCalls, inputVars, sheets, sheetIdx, processed, result, prevResult,
                   uuidSeed, now, scoreVars>>

HiddenSheetsCheck ==
    /\ pc = "hidden"
    /\ findings' = Push(findings, HiddenSheetFindings(sheets))
    /\ pc' = "sheets"
    /\ sheetIdx' = 1
    /\ UNCHANGED <<otherCalls, inputVars, sheets, processed, result, prevResult,
                   uuidSeed, now, scoreVars>>

\* one iteration of "for (const sheetName of sheetsToProcess)"; a TypeError
\* leaves analyzeWorkbook without a result (pc = "failed")
ProcessSheet ==
    /\ pc = "sheets"
    /\ sheetIdx <= Len(sheetsToProcess)
    /\ LET sheetName == sheetsToProcess[sheetIdx]
       IN  IF SheetThrows(workbook, sheetName, selectedKeyColumn)
           THEN /\ findings' = Push(findings, SheetFindingsUntilThrow(workbook, sheetName,
                                                                     selectedKeyColumn))
                /\ pc' = "failed"
                /\ UNCHANGED <<processed, sheetIdx>>
           ELSE /\ findings' = Push(findings, SheetFindings(workbook, sheetName,
                                                           selectedKeyColumn))
                /\ processed' = Append(processed, sheetName)
                /\ sheetIdx' = sheetIdx + 1
                /\ pc' = pc
    /\ UNCHANGED <<otherCalls, inputVars, sheets, result, prevResult, uuidSeed, now, scoreVars>>

\* the loop is over: calculateScore and the returned object
Finish ==
    /\ pc = "sheets"
    /\ sheetIdx > Len(sheetsToProcess)
    /\ result' = << AnalysisResultOf(fileId, fileName, findings, sheets) >>
    /\ pc' = "done"
    /\ UNCHANGED <<otherCalls, inputVars, sheets, findings, sheetIdx, processed, prevResult,
                   uuidSeed, now, scoreVars>>

\* the caller calls analyzeWorkbook again with the same arguments
CallAgain ==
    /\ pc = "done"
    /\ prevResult = <<>>
    /\ prevResult' = result
    /\ pc' = "start"
    /\ result' = <<>>
    /\ findings' = <<>>
    /\ sheets' = <<>>
    /\ sheetIdx' = 0
    /\ processed' = <<>>
    /\ UNCHANGED <<otherCalls, inputVars, uuidSeed, now, scoreVars>>

Next ==
    \/ Tick
    \/ Reseed
    \/ IntegrityCheck
    \/ SheetLimitCheck
    \/ HiddenSheetsCheck
    \/ ProcessSheet
    \/ Finish
    \/ CallAgain

Spec == Init /\ [][Next]_vars

----------------------------------------------------------------------------
(***************************************************************************)
(* analyzeWorkbook on one-sheet workbooks made for the per-sheet checks;   *)
(* the key column, where one is selected, is the sheet's first column.     *)
(***************************************************************************)
SheetInit ==
    /\ \E sh \in HeaderSheets \cup KeySheets \cup ErrorSheets \cup DateSheets :
          /\ workbook = Workbook(<<sh>>, "plain")
          /\ selectedKeyColumn =
                 IF sh \in KeySheets THEN KeyColumn("S1", 0) ELSE <<>>
    /\ fileId = "file-1"
    /\ fileName = "book.xlsx"
    /\ pc = "start"
    /\ sheets = <<>>
    /\ findings = <<>>
    /\ sheetIdx = 0
    /\ processed = <<>>
    /\ result = <<>>
    /\ prevResult = <<>>
    /\ uuidSeed = 0
    /\ now = 0
    /\ IdleScore
    /\ IdleOthers

SheetNext ==
    \/ IntegrityCheck
    \/ SheetLimitCheck
    \/ HiddenSheetsCheck
    \/ ProcessSheet
    \/ Finish

SheetSpec == SheetInit /\ [][SheetNext]_vars

----------------------------------------------------------------------------
(***************************************************************************)
(* calculateScore on its own: a findings list is scored, then a finding is *)
(* appended to it, or one of its info findings removed, and it is scored   *)
(* again.                                                                  *)
(***************************************************************************)
Severities == {"error", "warning", "info"}

ScoreFinding(severity) ==
    Finding(severity, "Category", "Sheet1", <<>>, <<>>, <<>>,
        Tpl("description", <<>>), Tpl("suggestion", <<>>))

Repeat(x, n) == [i \in 1..n |-> x]

\* e errors, w warnings and i infos, one severity after the other (orders 1
\* and 2) or taking turns (order 3)
RECURSIVE TakeTurns(_, _, _)
TakeTurns(e, w, i) ==
    IF e + w + i = 0 THEN <<>>
    ELSE (IF e > 0 THEN <<ScoreFinding("error")>> ELSE <<>>)
         \o (IF w > 0 THEN <<ScoreFinding("warning")>> ELSE <<>>)
         \o (IF i > 0 THEN <<ScoreFinding("info")>> ELSE <<>>)
         \o TakeTurns(Max(e - 1, 0), Max(w - 1, 0), Max(i - 1, 0))

FindingsList(e, w, i, order) ==
    CASE order = 1 -> Repeat(ScoreFinding("error"), e) \o Repeat(ScoreFinding("warning"), w)
                      \o Repeat(ScoreFinding("info"), i)
      [] order = 2 -> Repeat(ScoreFinding("info"), i) \o Repeat(ScoreFinding("warning"), w)
                      \o Repeat(ScoreFinding("error"), e)
      [] OTHER -> TakeTurns(e, w, i)

ScoreInputs ==
    {FindingsList(e, w, i, order) :
        e \in 0..MaxErrors, w \in 0..MaxWarnings, i \in 0..MaxInfos, order \in 1..3}

\* the list without its first info finding
WithoutFirstInfo(fs) ==
    LET k == CHOOSE j \in 1..Len(fs) :
                 IsInfo(fs[j]) /\ \A m \in 1..(j - 1) : ~IsInfo(fs[m])
    IN  SubSeq(fs, 1, k - 1) \o SubSeq(fs, k + 1, Len(fs))

IdleCall ==
    /\ workbook = Workbook(<<>>, "plain")
    /\ selectedKeyColumn = <<>>
    /\ fileId = ""
    /\ fileName = ""
    /\ pc = "start"
    /\ sheets = <<>>
    /\ findings = <<>>
    /\ sheetIdx = 0
    /\ processed = <<>>
    /\ result = <<>>
    /\ prevResult = <<>>
    /\ uuidSeed = 0
    /\ now = 0

ScoreInit ==
    /\ IdleCall
    /\ scoreArg \in ScoreInputs
    /\ scoreRet = <<>>
    /\ scorePrev = <<>>
    /\ IdleOthers

\* calculateScore(scoreArg)
ScoreCall ==
    /\ scoreRet = <<>>
    /\ scoreRet' = << calculateScore(scoreArg) >>
    /\ UNCHANGED <<otherCalls, inputVars, callVars, now, scoreArg, scorePrev>>

\* one more finding, and calculateScore again
ScoreAppend ==
    /\ scoreRet # <<>>
    /\ scorePrev = <<>>
    /\ \E severity \in Severities :
          /\ scoreArg' = Append(scoreArg, ScoreFinding(severity))
          /\ scorePrev' = << [arg |-> scoreArg, ret |-> scoreRet[1], added |-> severity] >>
    /\ scoreRet' = << calculateScore(scoreArg') >>
    /\ UNCHANGED <<otherCalls, inputVars, callVars, now>>

\* one info finding less, and calculateScore again
ScoreDropInfo ==
    /\ scoreRet # <<>>
    /\ scorePrev = <<>>
    /\ \E j \in 1..Len(scoreArg) : IsInfo(scoreArg[j])
    /\ scoreArg' = WithoutFirstInfo(scoreArg)
    /\ scorePrev' = << [arg |-> scoreArg, ret |-> scoreRet[1], added |-> "none"] >>
    /\ scoreRet' = << calculateScore(scoreArg') >>
    /\ UNCHANGED <<otherCalls, inputVars, callVars, now>>

ScoreNext ==
    \/ ScoreCall
    \/ ScoreAppend
    \/ ScoreDropInfo

ScoreSpec == ScoreInit /\ [][ScoreNext]_vars

(***************************************************************************)
(* generatePreview called on its own.                                      *)
(***************************************************************************)
\* sheets for the preview: headers that match and headers that do not, and a
\* column id whose first five data rows hold three values
PreviewSheets ==
    { TableSheet(<< <<<<StrCell(Txt.orderId)>>, <<StrCell(Txt.spacedId)>>,
                      <<StrCell(Txt.name)>>, <<StrCell(Txt.sku)>>, <<StrCell(Txt.id)>>>>,
                    <<<<NumCell(1)>>, <<NumCell(2)>>, <<>>, <<StrCell(Txt.empty)>>,
                      <<BoolCell(1)>>>>,
                    <<<<NumCell(1)>>, <<>>, <<StrCell(Txt.bob)>>, <<StrCell(Txt.blank)>>,
                      <<ErrCell(7, Txt.divErr)>>>> >>),
      ColumnSheet(<< <<StrCell(Txt.id)>>, <<NumCell(1)>>, <<>>, <<NumCell(2)>>,
                     <<StubCell>>, <<StrCell(Txt.one)>>, <<NumCell(3)>>, <<NumCell(4)>> >>) }

PreviewWorkbooks ==
    Workbooks
    \cup {Workbook(<<sh>>, "plain") : sh \in PreviewSheets \cup KeySheets \cup HeaderSheets}
    \cup {Workbook(<<a, b>>, "plain") : a \in PreviewSheets, b \in PreviewSheets}

FileSizes == {1, 2}

PreviewInit ==
    /\ workbook \in PreviewWorkbooks
    /\ selectedKeyColumn = <<>>
    /\ fileId = "file-1"
    /\ fileName = "book.xlsx"
    /\ pc = "start"
    /\ sheets = <<>>
    /\ findings = <<>>
    /\ sheetIdx = 0
    /\ processed = <<>>
    /\ result = <<>>
    /\ prevResult = <<>>
    /\ uuidSeed = 0
    /\ now = 0
    /\ IdleScore
    /\ preview = <<>>
    /\ letterCall = <<>>
    /\ IdleRoutes

\* generatePreview(buffer, fileId, fileName, fileSize)
GeneratePreview ==
    /\ preview = <<>>
    /\ \E fileSize \in FileSizes :
          preview' = << generatePreview(workbook, fileId, fileName, fileSize) >>
    /\ UNCHANGED <<inputVars, callVars, now, scoreVars, letterCall, routeVars>>

PreviewNext == GeneratePreview

PreviewSpec == PreviewInit /\ [][PreviewNext]_vars

(***************************************************************************)
(* getColumnLetter called on its own, one loop iteration at a time.        *)
(***************************************************************************)
LetterInit ==
    /\ IdleCall
    /\ IdleScore
    /\ preview = <<>>
    /\ IdleRoutes
    /\ \E index \in 0..MaxIndex :
          letterCall = << [index |-> index, temp |-> index, letter |-> "", pc |-> "loop"] >>

\* mutant: the quotient is not decremented
LetterStepPlain ==
    /\ letterCall # <<>>
    /\ letterCall[1].pc = "loop"
    /\ letterCall[1].temp >= 0
    /\ letterCall' =
           << [letterCall[1] EXCEPT
                  !.letter = UpperChars[(letterCall[1].temp % 26) + 1] \o @,
                  !.temp = IF @ < 26 THEN -1 ELSE @ \div 26] >>
    /\ UNCHANGED <<inputVars, callVars, now, scoreVars, preview, routeVars>>

\* while (temp >= 0) { letter = String.fromCharCode(temp % 26 + 65) + letter;
\*                      temp = Math.floor(temp / 26) - 1 }
LetterStep ==
    /\ letterCall # <<>>
    /\ letterCall[1].pc = "loop"
    /\ letterCall[1].temp >= 0
    /\ letterCall' =
           << [letterCall[1] EXCEPT
                  !.letter = UpperChars[(letterCall[1].temp % 26) + 1] \o @,
                  !.temp = (@ \div 26) - 1] >>
    /\ UNCHANGED <<inputVars, callVars, now, scoreVars, preview, routeVars>>

\* return letter
LetterReturn ==
    /\ letterCall # <<>>
    /\ letterCall[1].pc = "loop"
    /\ letterCall[1].temp < 0
    /\ letterCall' = << [letterCall[1] EXCEPT !.pc = "done"] >>
    /\ UNCHANGED <<inputVars, callVars, now, scoreVars, preview, routeVars>>

LetterNext == LetterStep \/ LetterReturn

\* the loop is not suspended: a call that can take a step takes it
LetterSpec == LetterInit /\ [][LetterNext]_vars /\ WF_vars(LetterNext)

----------------------------------------------------------------------------
(***************************************************************************)
(* Properties.                                                             *)
(***************************************************************************)
CountOf(fs, severity) == Cardinality({j \in 1..Len(fs) : fs[j].severity = severity})

WithoutIds(fs) == [j \in 1..Len(fs) |-> [fs[j] EXCEPT !.id = ""]]

\* a result without what a call draws from the random source and the clock
Reproducible(r) == [r EXCEPT !.analyzedAt = 0, !.findings = WithoutIds(@)]

CalledTwice == pc = "done" /\ prevResult # <<>> /\ result # <<>>

ExpectedScore(e, w) == Max(0, (100 - Min(10 * e, 70)) - Min(3 * w, 30))

\* C2: the score of a findings list with e errors and w warnings is
\* max(0, 100 - min(10e, 70) - min(3w, 30)), and a list that differs from a
\* scored one by one info finding has the same score.
C2_ScoreFormula ==
    /\ scoreRet # <<>> =>
           scoreRet[1].score =
               ExpectedScore(CountOf(scoreArg, "error"), CountOf(scoreArg, "warning"))
    /\ (scorePrev # <<>> /\ scorePrev[1].added \in {"info", "none"}) =>
           scoreRet[1].score = scorePrev[1].ret.score

\* 8 errors, 11 warnings and infos, scored before and after an info is added
C2_Witness ==
    /\ scorePrev # <<>>
    /\ scorePrev[1].added = "info"
    /\ CountOf(scoreArg, "error") = 8
    /\ CountOf(scoreArg, "warning") = 11
    /\ CountOf(scoreArg, "info") >= 2

\* C3: every score is an integer from 0 to 100, and it is 100 exactly when
\* the list holds no error and no warning.
C3_ScoreBounds ==
    scoreRet # <<>> =>
        /\ scoreRet[1].score \in 0..100
        /\ (scoreRet[1].score = 100) <=>
               (CountOf(scoreArg, "error") = 0 /\ CountOf(scoreArg, "warning") = 0)

\* a list of errors and warnings at both caps scores 0
C3_Witness ==
    /\ scoreRet # <<>>
    /\ scoreRet[1].score = 0
    /\ CountOf(scoreArg, "error") > 7
    /\ CountOf(scoreArg, "warning") > 10

\* C4: one more error or warning never raises the score, and from 7 errors on
\* one more error leaves it unchanged (8 and 20 errors score the same).
C4_MonotoneSaturating ==
    scorePrev # <<>> =>
        /\ scorePrev[1].added \in {"error", "warning"} =>
               scoreRet[1].score <= scorePrev[1].ret.score
        /\ (scorePrev[1].added = "error" /\ CountOf(scorePrev[1].arg, "error") >= 7) =>
               scoreRet[1].score = scorePrev[1].ret.score

\* the twentieth error is appended to a list with warnings below their cap
C4_Witness ==
    /\ scorePrev # <<>>
    /\ scorePrev[1].added = "error"
    /\ CountOf(scoreArg, "error") = 20
    /\ CountOf(scoreArg, "warning") = 5
    /\ scoreRet[1].score = 15

CountsMatch(r) ==
    /\ r.errorCount = CountOf(r.findings, "error")
    /\ r.warningCount = CountOf(r.findings, "warning")
    /\ r.infoCount = CountOf(r.findings, "info")
    /\ r.errorCount + r.warningCount + r.infoCount = Len(r.findings)

\* C5: in every returned result, from the loop or from the zero-sheet return,
\* each count is the number of findings of that severity and the three add
\* up to findings.length.
C5_CountInvariant ==
    /\ result # <<>> => CountsMatch(result[1])
    /\ prevResult # <<>> => CountsMatch(prevResult[1])

\* a result of the sheet loop with errors and warnings
C5_Witness ==
    /\ result # <<>>
    /\ workbook.SheetNames # <<>>
    /\ result[1].errorCount >= 2
    /\ result[1].warningCount >= 2

SheetCount == Len(workbook.SheetNames)
FirstSheets == [i \in 1..Min(SheetCount, MAX_SHEETS) |-> workbook.SheetNames[i]]
DroppedSheets == {workbook.SheetNames[i] : i \in (MAX_SHEETS + 1)..SheetCount}

\* the workbook-level finding of the sheet limit, and the finding of a sheet's
\* row and column limits
IsSheetLimitFinding(f) ==
    /\ f.category = "Processing Limits"
    /\ f.description.tpl = "Workbook contains sheets. Only the first will be analyzed"
IsSheetClampFinding(f) ==
    /\ f.category = "Processing Limits"
    /\ f.description.tpl = "Sheet exceeds processing limits"

SheetLimitFindingsIn(fs) == {j \in 1..Len(fs) : IsSheetLimitFinding(fs[j])}

\* C6: the sheet loop runs on the first MAX_SHEETS sheets in declaration order
\* and on no other; a workbook of more than MAX_SHEETS sheets gets exactly one
\* workbook-level Processing Limits warning with sheet '-' that lists the
\* processed sheets, a smaller workbook gets none; no finding of a per-sheet
\* check is about a dropped sheet.
C6_SheetClamp ==
    /\ Len(processed) <= Len(FirstSheets)
    /\ \A i \in 1..Len(processed) : processed[i] = workbook.SheetNames[i]
    /\ (pc = "done" /\ SheetCount > 0) => processed = FirstSheets
    /\ pc \in {"hidden", "sheets", "done"} =>
           Cardinality(SheetLimitFindingsIn(findings))
               = (IF SheetCount > MAX_SHEETS THEN 1 ELSE 0)
    /\ \A j \in SheetLimitFindingsIn(findings) :
           /\ findings[j].severity = "warning"
           /\ findings[j].sheet = "-"
           /\ findings[j].suggestion.args = <<Join(FirstSheets, ", ")>>
    /\ \A j \in 1..Len(findings) :
           findings[j].category # "Hidden Sheets" => findings[j].sheet \notin DroppedSheets

\* the workbook with the most sheets (25) analysed to the end
C6_Witness ==
    /\ pc = "done"
    /\ SheetCount = MAX_SHEETS + MaxExtraSheets
    /\ Len(processed) = MAX_SHEETS
    /\ Cardinality(SheetLimitFindingsIn(result[1].findings)) = 1

\* the last sheet of the run of consecutive sheet names that starts at sheet
\* k - (number of names joined in acc) + 1 and whose ", "-join is the text,
\* or 0 if there is none; acc is the join of the run up to sheet k
RECURSIVE RunEnd(_, _, _)
RunEnd(k, acc, text) ==
    IF acc = text THEN k
    ELSE IF Len(acc) >= Len(text) \/ k = SheetCount THEN 0
    ELSE RunEnd(k + 1, acc \o ", " \o workbook.SheetNames[k + 1], text)

\* the sheets a text names: the sheets of every run of consecutive sheet names
\* whose ", "-join is the text
SheetsNamedIn(text) ==
    UNION {{workbook.SheetNames[k] : k \in i..RunEnd(i, workbook.SheetNames[i], text)} :
              i \in {i \in 1..SheetCount : RunEnd(i, workbook.SheetNames[i], text) > 0}}

SheetsNamedBy(f) ==
    UNION {SheetsNamedIn(f.description.args[k]) : k \in 1..Len(f.description.args)}
    \cup UNION {SheetsNamedIn(f.suggestion.args[k]) : k \in 1..Len(f.suggestion.args)}

SheetsDropped == pc = "done" /\ SheetCount > MAX_SHEETS

\* C7 as stated: when sheets are dropped, the workbook-level Processing Limits
\* finding names the dropped sheets.
C7_NamesDroppedSheets ==
    SheetsDropped =>
        \A j \in SheetLimitFindingsIn(result[1].findings) :
            DroppedSheets \subseteq SheetsNamedBy(result[1].findings[j])

\* C7 amended: when sheets are dropped, the single workbook-level Processing
\* Limits finding names the sheets that are processed, the first MAX_SHEETS in
\* declaration order, and no dropped sheet; of the dropped sheets it tells only
\* through the total number of sheets.
C7_NamesProcessedSheets ==
    SheetsDropped =>
        /\ Cardinality(SheetLimitFindingsIn(result[1].findings)) = 1
        /\ \A j \in SheetLimitFindingsIn(result[1].findings) :
               LET f == result[1].findings[j]
               IN  /\ SheetsNamedBy(f) = Range(FirstSheets)
                   /\ SheetsNamedBy(f) \cap DroppedSheets = {}
                   /\ f.description.args = <<NumText(SheetCount), NumText(MAX_SHEETS)>>

\* a result for the workbook with the most sheets (25), with its workbook-level
\* finding
C7_Witness ==
    /\ SheetsDropped
    /\ Cardinality(DroppedSheets) = MaxExtraSheets
    /\ \E j \in SheetLimitFindingsIn(result[1].findings) :
           Cardinality(SheetsNamedBy(result[1].findings[j])) = MAX_SHEETS

\* the sheet without the cells outside its clamped range
ClampedSheet(ws) ==
    LET lr == LimitedRange(DecodeRange(ws))
        kept == CellsWithin(ws, lr.s.r, lr.e.r, lr.s.c, lr.e.c)
    IN  [ws EXCEPT !.cells = [a \in kept |-> ws.cells[a]]]

ClampedWorkbook(wb) ==
    [wb EXCEPT !.Sheets = [nm \in DOMAIN wb.Sheets |-> ClampedSheet(wb.Sheets[nm])]]

RECURSIVE LoopFindings(_, _, _)
LoopFindings(wb, names, keyColumn) ==
    IF names = <<>> THEN <<>>
    ELSE LoopFindings(wb, SubSeq(names, 1, Len(names) - 1), keyColumn)
         \o SheetFindings(wb, names[Len(names)], keyColumn)

\* C8 as stated: the cells outside a processed sheet's clamped range never
\* influence a finding, whatever key column the caller names: the findings
\* are those of the same workbook without these cells.
C8_ClampConfined ==
    (pc \in {"sheets", "done"} /\ SheetCount > 0) =>
        WithoutIds(findings) =
            SheetLimitFindings(ClampedWorkbook(workbook))
            \o HiddenSheetFindings(getSheetInfo(ClampedWorkbook(workbook)))
            \o LoopFindings(ClampedWorkbook(workbook), processed, selectedKeyColumn)

SheetClampFindingsOf(fs, sheetName) ==
    {j \in 1..Len(fs) : IsSheetClampFinding(fs[j]) /\ fs[j].sheet = sheetName}

RowsOf(range) == range.e.r - range.s.r + 1
ColsOf(range) == range.e.c - range.s.c + 1

\* C9: a processed sheet gets exactly one Processing Limits warning naming it
\* if its used range has more than MAX_ROWS_PER_SHEET rows or more than
\* MAX_COLS_PER_SHEET columns, one even if both, and none otherwise; its
\* clamped range starts at the used range's origin and spans the first
\* min(rows, MAX_ROWS_PER_SHEET) rows and min(columns, MAX_COLS_PER_SHEET)
\* columns; the call returns a result carrying these findings.
C9_RowColClamp ==
    /\ \A i \in 1..Len(processed) :
           LET range == DecodeRange(workbook.Sheets[processed[i]])
               mine == SheetClampFindingsOf(findings, processed[i])
           IN  /\ Cardinality(mine)
                      = (IF RowsOf(range) > MAX_ROWS_PER_SHEET
                            \/ ColsOf(range) > MAX_COLS_PER_SHEET THEN 1 ELSE 0)
               /\ \A j \in mine : findings[j].severity = "warning"
               /\ LimitedRange(range).s = range.s
               /\ RowsOf(LimitedRange(range)) = Min(RowsOf(range), MAX_ROWS_PER_SHEET)
               /\ ColsOf(LimitedRange(range)) = Min(ColsOf(range), MAX_COLS_PER_SHEET)
    /\ pc = "done" => (result # <<>> /\ result[1].findings = findings)

\* a result for a sheet with too many rows and too many columns
C9_Witness ==
    /\ pc = "done"
    /\ result # <<>>
    /\ \E i \in 1..Len(processed) :
           LET range == DecodeRange(workbook.Sheets[processed[i]])
           IN  /\ RowsOf(range) > MAX_ROWS_PER_SHEET
               /\ ColsOf(range) > MAX_COLS_PER_SHEET
               /\ range.s.r > 0
               /\ Cardinality(SheetClampFindingsOf(result[1].findings, processed[i])) = 1

NoSheets == workbook.SheetNames = <<>> /\ pc = "done"

\* C10: a workbook without sheets returns a result: exactly one finding, the
\* error "No sheets found in workbook", score 90, no sheets, and no other
\* check has run.
C10_ZeroSheets ==
    NoSheets =>
        /\ result # <<>>
        /\ Len(result[1].findings) = 1
        /\ result[1].findings[1].severity = "error"
        /\ result[1].findings[1].category = "Workbook Integrity"
        /\ result[1].findings[1].description.tpl = "No sheets found in workbook"
        /\ result[1].score = 90
        /\ result[1].sheets = <<>>
        /\ processed = <<>>

\* the zero-sheet workbook has been analysed
C10_Witness ==
    /\ NoSheets
    /\ result # <<>>
    /\ result[1].errorCount = 1

\* where a finding comes from: 0 the integrity check, 1 the sheet limit, 2 the
\* hidden-sheets check, 3 the sheet loop
PhaseOf(f) ==
    CASE f.category = "Workbook Integrity" -> 0
      [] IsSheetLimitFinding(f) -> 1
      [] f.category = "Hidden Sheets" -> 2
      [] OTHER -> 3

\* the check of the loop body a finding comes from, in execution order
StageOf(f) ==
    CASE f.category = "Processing Limits" -> 1
      [] f.category = "Header Quality"
         /\ f.description.tpl # "Duplicate column headers" -> 2
      [] f.category = "Header Quality" -> 3
      [] f.category = "Empty Data" -> 4
      [] f.category = "Formula Errors" -> 5
      [] f.category = "Data Type Anomaly" -> 6
      [] OTHER -> 7

SheetPosition(f) == CHOOSE i \in 1..SheetCount : workbook.SheetNames[i] = f.sheet

InExecutionOrder(f, g) ==
    \/ PhaseOf(f) < PhaseOf(g)
    \/ /\ PhaseOf(f) = PhaseOf(g)
       /\ \/ PhaseOf(f) < 3
          \/ SheetPosition(f) < SheetPosition(g)
          \/ SheetPosition(f) = SheetPosition(g) /\ StageOf(f) <= StageOf(g)

OrderedByExecution(fs) == \A j \in 1..(Len(fs) - 1) : InExecutionOrder(fs[j], fs[j + 1])

\* C11 as stated: in every result every 'Processing Limits' finding precedes
\* the 'Hidden Sheets' finding, which precedes every 'Header Quality' and
\* 'Empty Data' finding.
C11_LimitsThenHiddenThenSheets ==
    pc = "done" =>
        \A i, j \in 1..Len(result[1].findings) :
            LET f == result[1].findings[i]
                g == result[1].findings[j]
            IN  /\ (f.category = "Processing Limits" /\ g.category = "Hidden Sheets") => i < j
                /\ (f.category = "Hidden Sheets"
                    /\ g.category \in {"Header Quality", "Empty Data"}) => i < j

\* C11 amended: the findings follow the order in which the checks execute:
\* the workbook-level Processing Limits finding, then the Hidden Sheets
\* finding, then the processed sheets one after the other in declaration
\* order, each with its own Processing Limits finding first, then its Header
\* Quality, Empty Data, Formula Errors, Data Type Anomaly and Duplicate Keys
\* findings; the list is never rearranged by severity.
C11_ExecutionOrder ==
    /\ OrderedByExecution(findings)
    /\ result # <<>> => OrderedByExecution(result[1].findings)
    /\ (pc = "done" /\ SheetCount > 0) => result[1].findings = findings

\* a result where a sheet's Processing Limits finding follows the Hidden
\* Sheets finding and a warning follows an error
C11_Witness ==
    /\ pc = "done"
    /\ \E i, j, k, m \in 1..Len(result[1].findings) :
           /\ i < j /\ j < k /\ k < m
           /\ result[1].findings[i].category = "Hidden Sheets"
           /\ IsSheetClampFinding(result[1].findings[j])
           /\ result[1].findings[k].severity = "error"
           /\ result[1].findings[m].severity = "warning"

\* the findings of a list that are about a sheet and belong to a category
FindingsOf(fs, sheetName, category) ==
    {j \in 1..Len(fs) : fs[j].sheet = sheetName /\ fs[j].category = category}

\* a header as the specification defines it: the string value of the cell in
\* the first row of the used range, blank if the cell is absent or the value
\* is empty after trimming
HeaderString(ws, c) ==
    IF HasCell(ws, DecodeRange(ws).s.r, c) /\ CellAt(ws, DecodeRange(ws).s.r, c).vk # "undef"
    THEN StringOf(CellAt(ws, DecodeRange(ws).s.r, c))
    ELSE <<>>

ClampedColumns(ws) ==
    LimitedRange(DecodeRange(ws)).s.c .. LimitedRange(DecodeRange(ws)).e.c

BlankColumns(ws) == {c \in ClampedColumns(ws) : Trim(HeaderString(ws, c)) = <<>>}

\* C12: a processed sheet whose header cells are all blank (absent, or empty
\* after trimming) across the clamped columns has exactly one error-severity
\* Header Quality finding, without a column list, and no warning-severity
\* Header Quality finding.
C12_MissingHeaderRow ==
    \A i \in 1..Len(processed) :
        LET ws == workbook.Sheets[processed[i]]
            mine == FindingsOf(findings, processed[i], "Header Quality")
        IN  BlankColumns(ws) = ClampedColumns(ws) =>
                /\ Cardinality(mine) = 1
                /\ \A j \in mine : /\ findings[j].severity = "error"
                                    /\ findings[j].column = <<>>
                                    /\ findings[j].description.tpl
                                           = "Missing header row - first row is completely blank"

\* a result for a sheet of several columns whose headers are blank in both
\* ways, and one for the sheet whose only header lies beyond the column limit
C12_Witness ==
    /\ pc = "done"
    /\ LET ws == workbook.Sheets[processed[1]]
       IN  /\ BlankColumns(ws) = ClampedColumns(ws)
           /\ \/ /\ Cardinality(ClampedColumns(ws)) = MaxHeaders
                  /\ HasCell(ws, 0, 0)
                  /\ ~HasCell(ws, 0, 1)
              \/ HasCell(ws, 0, MAX_COLS_PER_SHEET)
           /\ result[1].errorCount = 1

\* the letters of a set of columns of the sheet, in column order
LettersOf(ws, cols) ==
    LET first == LimitedRange(DecodeRange(ws)).s.c
        all == [i \in 1..Cardinality(ClampedColumns(ws)) |-> first + i - 1]
        chosen == SelectSeq(all, LAMBDA c : c \in cols)
    IN  [i \in 1..Len(chosen) |-> getColumnLetter(chosen[i])]

EmptyHeaderWarnings(fs, sheetName) ==
    {j \in FindingsOf(fs, sheetName, "Header Quality") :
        fs[j].description.tpl = "Empty column headers in columns"}

\* C13 as stated, read in the code's favour (the one warning is the
\* empty-header warning; a duplicate-header warning is not counted): a
\* processed sheet where some but not all headers are blank has exactly one
\* empty-header warning, which lists exactly the letters of the blank
\* columns; so with one blank header among five it lists that one letter.
C13_ListsBlankColumns ==
    \A i \in 1..Len(processed) :
        LET ws == workbook.Sheets[processed[i]]
            blank == BlankColumns(ws)
            mine == EmptyHeaderWarnings(findings, processed[i])
        IN  (blank # {} /\ blank # ClampedColumns(ws)) =>
                /\ Cardinality(mine) = 1
                /\ \A j \in mine :
                       /\ findings[j].severity = "warning"
                       /\ findings[j].column = <<Join(LettersOf(ws, blank), ", ")>>

\* the non-blank header strings that occur in two or more clamped columns,
\* compared exactly; a header the code reads as blank (the number 0, false)
\* is left out, in the code's favour
DuplicatedHeaders(ws) ==
    LET row == DecodeRange(ws).s.r
        named == {c \in ClampedColumns(ws) : Trim(HeaderText(ws, row, c)) # <<>>}
    IN  {HeaderString(ws, c) : c \in {x \in named :
            \E y \in named : y # x /\ HeaderString(ws, y) = HeaderString(ws, x)}}

\* the text lists every element of the set once and nothing else
ListsEachOnce(text, strings) ==
    \E q \in [1..Cardinality(strings) -> strings] :
        /\ \A a, b \in DOMAIN q : a # b => q[a] # q[b]
        /\ text = Join([k \in DOMAIN q |-> Text(q[k])], ", ")

DuplicateHeaderWarnings(fs, sheetName) ==
    {j \in FindingsOf(fs, sheetName, "Header Quality") :
        fs[j].description.tpl = "Duplicate column headers"}

\* C14 as stated: a processed sheet has exactly one 'Duplicate column headers'
\* warning if some non-blank header string occurs in two or more columns
\* (case-sensitive, exact) and none otherwise; the warning lists each
\* duplicated string once.
C14_DuplicateHeaders ==
    \A i \in 1..Len(processed) :
        LET ws == workbook.Sheets[processed[i]]
            mine == DuplicateHeaderWarnings(findings, processed[i])
        IN  /\ Cardinality(mine) = (IF DuplicatedHeaders(ws) # {} THEN 1 ELSE 0)
            /\ \A j \in mine :
                   /\ findings[j].severity = "warning"
                   /\ ListsEachOnce(findings[j].description.args[1], DuplicatedHeaders(ws))

\* the error token a cell carries, <<>> if it is not an erroring cell: the
\* formatted text (or else the value) of a cell typed as error, or the text
\* of a string cell that is exactly one of the eight tokens
TokenOf(cell) ==
    IF cell.t = "e" THEN (IF cell.w # <<>> THEN cell.w ELSE StringOf(cell))
    ELSE IF cell.vk = "str" /\ cell.vs \in Range(EXCEL_ERRORS) THEN cell.vs
    ELSE <<>>

ClampedCells(ws) ==
    LET lr == LimitedRange(DecodeRange(ws))
    IN  {a \in DOMAIN ws.cells :
            a[1] \in lr.s.r..lr.e.r /\ a[2] \in lr.s.c..lr.e.c}

CellsCarrying(ws, token) == {a \in ClampedCells(ws) : TokenOf(ws.cells[a]) = token}

TokensIn(ws) == {TokenOf(ws.cells[a]) : a \in ClampedCells(ws)} \ {<<>>}

\* C15: a processed sheet has as many Formula Errors findings as its erroring
\* cells in the clamped range carry distinct tokens: for each token one
\* error-severity finding, whose cell count is the number of cells carrying
\* the token and whose references, up to ten of them, are those cells.
C15_OneFindingPerToken ==
    \A i \in 1..Len(processed) :
        LET ws == workbook.Sheets[processed[i]]
            mine == FindingsOf(findings, processed[i], "Formula Errors")
        IN  /\ Cardinality(mine) = Cardinality(TokensIn(ws))
            /\ \A token \in TokensIn(ws) :
                   LET cells == RowMajor(CellsCarrying(ws, token))
                       refs == [k \in 1..Len(cells) |-> EncodeCell(cells[k][1], cells[k][2])]
                       about == {j \in mine : findings[j].description.args[2] = Text(token)}
                   IN  /\ Cardinality(about) = 1
                       /\ \A j \in about :
                              /\ findings[j].severity = "error"
                              /\ findings[j].description.args[1] = NumText(Len(cells))
                              /\ Len(cells) <= 10 => findings[j].cellRef = <<Join(refs, ", ")>>

\* three #REF! cells, one of them typed as error, and one #DIV/0! cell: two
\* findings, the #REF! one with 3 references
C15_Witness ==
    /\ pc = "done"
    /\ LET ws == workbook.Sheets[processed[1]]
       IN  /\ Cardinality(CellsCarrying(ws, Txt.refErr)) = 3
           /\ Cardinality(CellsCarrying(ws, Txt.divErr)) = 1
           /\ \E a \in CellsCarrying(ws, Txt.refErr) : ws.cells[a].t = "e"
           /\ Cardinality(ClampedCells(ws)) = 4
    /\ Len(result[1].findings) = 2
    /\ \E j \in 1..2 : /\ result[1].findings[j].category = "Formula Errors"
                        /\ result[1].findings[j].description.args[1] = "3"

\* the data cells of the key column that hold a value: below the header row,
\* inside the clamped rows
KeyCellsOf(ws, keyColumn) ==
    LET lr == LimitedRange(DecodeRange(ws))
    IN  {a \in DOMAIN ws.cells :
            /\ a[2] = keyColumn.columnIndex
            /\ a[1] \in (lr.s.r + 1)..lr.e.r
            /\ ws.cells[a].vk # "undef"}

\* the cells whose stringified value occurs in two or more of the cells
DuplicatedKeyCells(ws, keyColumn) ==
    {a \in KeyCellsOf(ws, keyColumn) :
        \E b \in KeyCellsOf(ws, keyColumn) :
            b # a /\ StringOf(ws.cells[b]) = StringOf(ws.cells[a])}

DuplicatedKeyValues(ws, keyColumn) ==
    {StringOf(ws.cells[a]) : a \in DuplicatedKeyCells(ws, keyColumn)}

KeySheetAnalysed ==
    /\ pc \in {"done", "failed"}
    /\ selectedKeyColumn # <<>>
    /\ selectedKeyColumn[1].sheet \in Range(FirstSheets)

\* C16 as stated: when the duplicate check runs on a key column, the run
\* returns a result with one Duplicate Keys error if some stringified value
\* occurs in two or more non-blank data cells of the column and none
\* otherwise; the finding reports the number of such values, the number of
\* cells holding them, and their 1-indexed rows.
C16_DuplicateKeyCounts ==
    KeySheetAnalysed =>
        LET key == selectedKeyColumn[1]
            ws == workbook.Sheets[key.sheet]
            mine == FindingsOf(findings, key.sheet, "Duplicate Keys")
        IN  /\ pc = "done"
            /\ Cardinality(mine) = (IF DuplicatedKeyValues(ws, key) # {} THEN 1 ELSE 0)
            /\ \A j \in mine :
                   /\ findings[j].severity = "error"
                   /\ findings[j].description.args[1]
                          = NumText(Cardinality(DuplicatedKeyValues(ws, key)))
                   /\ findings[j].description.args[2]
                          = NumText(Cardinality(DuplicatedKeyCells(ws, key)))
                   /\ Range(findings[j].rowNumbers[1])
                          = {a[1] + 1 : a \in DuplicatedKeyCells(ws, key)}

DuplicateKeyFindings(fs) == {j \in 1..Len(fs) : fs[j].category = "Duplicate Keys"}

KeySheetNotProcessed ==
    selectedKeyColumn = <<>> \/ selectedKeyColumn[1].sheet \notin Range(FirstSheets)

\* C17: a run has at most one Duplicate Keys finding, and has one only if a
\* key column was supplied whose sheet is one of the processed sheets; with
\* no key column, or one that names a sheet that does not exist or was
\* dropped by the sheet limit, the run does not fail and its result holds no
\* Duplicate Keys finding.
C17_DuplicateKeyGating ==
    /\ Cardinality(DuplicateKeyFindings(findings)) <= 1
    /\ DuplicateKeyFindings(findings) # {} =>
           /\ selectedKeyColumn # <<>>
           /\ selectedKeyColumn[1].sheet \in Range(processed)
    /\ KeySheetNotProcessed =>
           /\ pc # "failed"
           /\ DuplicateKeyFindings(findings) = {}
           /\ pc = "done" =>
                  (result # <<>> /\ DuplicateKeyFindings(result[1].findings) = {})

\* a result for a workbook whose key column names a sheet dropped by the
\* sheet limit, where the column holds a value twice
C17_Witness ==
    /\ pc = "done"
    /\ SheetCount > MAX_SHEETS
    /\ selectedKeyColumn # <<>>
    /\ selectedKeyColumn[1].sheet \in DroppedSheets
    /\ DuplicatedKeyCells(workbook.Sheets[selectedKeyColumn[1].sheet],
                          selectedKeyColumn[1]) # {}
    /\ result # <<>>

\* the data cells of column c that hold a value: the cells of the clamped
\* range below its first row
DataValues(ws, c) ==
    {a \in ClampedCells(ws) :
        /\ a[2] = c
        /\ a[1] > DecodeRange(ws).s.r
        /\ ws.cells[a].vk # "undef"}

DateTexts(ws, c) ==
    {a \in DataValues(ws, c) : ws.cells[a].vk = "str" /\ MatchesDatePattern(ws.cells[a].vs)}

NumericValues(ws, c) == {a \in DataValues(ws, c) : ws.cells[a].t = "n"}

\* the columns of the date-text scenario: 10 values, exactly 3 of them date
\* texts
ScenarioColumns(ws) ==
    {c \in DecodeRange(ws).s.c..DecodeRange(ws).e.c :
        Cardinality(DataValues(ws, c)) = 10 /\ Cardinality(DateTexts(ws, c)) = 3}

ColumnLabel(ws, c) ==
    LET h == HeaderText(ws, DecodeRange(ws).s.r, c)
    IN  IF h # <<>> THEN Text(h) ELSE getColumnLetter(c)

AnomaliesOf(fs, sheetName, label) ==
    {j \in FindingsOf(fs, sheetName, "Data Type Anomaly") : fs[j].column = <<label>>}

IsTextDateWarning(f) ==
    /\ f.severity = "warning"
    /\ f.description = Tpl("values appear to be text-formatted dates", <<"3", "30">>)

IsMixedWarning(f) ==
    f.severity = "warning" /\ f.description.tpl = "Mixed data types"

\* C18 as stated: a column with 10 data values, exactly 3 of them date texts,
\* yields exactly one Data Type Anomaly warning, reporting 3 values (30%),
\* whatever the other 7 values are.
C18_ExactlyOneAnomaly ==
    pc = "done" =>
        \A sheetName \in Range(processed) :
            LET ws == workbook.Sheets[sheetName]
            IN  \A c \in ScenarioColumns(ws) :
                    LET mine == AnomaliesOf(findings, sheetName, ColumnLabel(ws, c))
                    IN  /\ Cardinality(mine) = 1
                        /\ \A j \in mine : IsTextDateWarning(findings[j])

\* C18 amended: such a column yields exactly one text-date warning reporting
\* 3 values (30%); it yields one further Data Type Anomaly warning, Mixed data
\* types, exactly when more than half of the 10 values are numeric, and no
\* other Data Type Anomaly finding.
C18_DateWarningAndMixed ==
    pc = "done" =>
        \A sheetName \in Range(processed) :
            LET ws == workbook.Sheets[sheetName]
            IN  \A c \in ScenarioColumns(ws) :
                    LET mine == AnomaliesOf(findings, sheetName, ColumnLabel(ws, c))
                        dates == {j \in mine : IsTextDateWarning(findings[j])}
                        mixed == {j \in mine : IsMixedWarning(findings[j])}
                    IN  /\ Cardinality(dates) = 1
                        /\ Cardinality(mixed) =
                               (IF 2 * Cardinality(NumericValues(ws, c)) > 10 THEN 1 ELSE 0)
                        /\ mine = dates \cup mixed
                        /\ \A j \in dates : \A k \in mixed : j < k

\* a finished run on a scenario column whose other 7 values are 6 numbers and
\* a text
C18_Witness ==
    /\ pc = "done"
    /\ \E sheetName \in Range(processed) :
           \E c \in ScenarioColumns(workbook.Sheets[sheetName]) :
               /\ Cardinality(NumericValues(workbook.Sheets[sheetName], c)) = 6
               /\ Cardinality(AnomaliesOf(findings, sheetName,
                                          ColumnLabel(workbook.Sheets[sheetName], c))) = 2

\* the names of the workbook's hidden and very hidden sheets, in workbook order
HiddenNames ==
    SelectSeq(workbook.SheetNames,
              LAMBDA nm : nm \in DOMAIN workbook.Props /\ workbook.Props[nm] \in {1, 2})

HiddenFindings(fs) == {j \in 1..Len(fs) : fs[j].category = "Hidden Sheets"}

NamesAllHidden(f) ==
    /\ f.severity = "warning"
    /\ f.sheet = Join(HiddenNames, ", ")
    /\ f.description.args = <<NumText(Len(HiddenNames)), Join(HiddenNames, ", ")>>

\* C19: once the hidden-sheets check has run, the findings hold exactly one
\* Hidden Sheets warning, naming every hidden sheet, if the workbook has a
\* hidden or very hidden sheet, and none if it has not; there is never more
\* than one, and the result carries the same.
C19_OneHiddenSheetsFinding ==
    /\ Cardinality(HiddenFindings(findings)) <= 1
    /\ \A j \in HiddenFindings(findings) : NamesAllHidden(findings[j])
    /\ pc \in {"sheets", "failed", "done"} =>
           Cardinality(HiddenFindings(findings)) = (IF HiddenNames # <<>> THEN 1 ELSE 0)
    /\ (pc = "done" /\ result # <<>>) =>
           /\ Cardinality(HiddenFindings(result[1].findings))
                  = (IF HiddenNames # <<>> THEN 1 ELSE 0)
           /\ \A j \in HiddenFindings(result[1].findings) :
                  NamesAllHidden(result[1].findings[j])

\* a result for a workbook with several hidden sheets, one of them beyond the
\* sheet limit
C19_Witness ==
    /\ pc = "done"
    /\ result # <<>>
    /\ Len(HiddenNames) > 2
    /\ \E i \in 1..Len(HiddenNames) : HiddenNames[i] \in DroppedSheets
    /\ Cardinality(HiddenFindings(result[1].findings)) = 1

\* the number of rows of a sheet's used range; a sheet with no recorded range
\* has the range A1
UsedRows(ws) == IF ws.hasRef THEN ws.ref.e.r - ws.ref.s.r + 1 ELSE 1

\* C20: in a finished run every processed sheet has exactly one Empty Data
\* finding, a warning, if its used range has exactly one row (a sheet with no
\* recorded used range included) and none otherwise; a sheet that was not
\* processed has none.
C20_EmptyData ==
    pc = "done" =>
        /\ \A sheetName \in Range(processed) :
               LET mine == FindingsOf(findings, sheetName, "Empty Data")
               IN  /\ Cardinality(mine)
                          = (IF UsedRows(workbook.Sheets[sheetName]) = 1 THEN 1 ELSE 0)
                   /\ \A j \in mine : findings[j].severity = "warning"
        /\ \A j \in 1..Len(findings) :
               findings[j].category = "Empty Data" => findings[j].sheet \in Range(processed)

\* a finished run that processed a sheet without a recorded used range, a
\* sheet of one row and a sheet with data rows
C20_Witness ==
    /\ pc = "done"
    /\ \E a, b, c \in Range(processed) :
           /\ ~workbook.Sheets[a].hasRef
           /\ FindingsOf(findings, a, "Empty Data") # {}
           /\ workbook.Sheets[b].hasRef /\ UsedRows(workbook.Sheets[b]) = 1
           /\ FindingsOf(findings, b, "Empty Data") # {}
           /\ UsedRows(workbook.Sheets[c]) > 1
           /\ FindingsOf(findings, c, "Empty Data") = {}

\* a column's header: the string value of the cell in the first row of the
\* used range, empty if there is none
RawHeader(ws, c) ==
    LET r == DecodeRange(ws).s.r
    IN  IF HasCell(ws, r, c) /\ CellAt(ws, r, c).vk # "undef"
        THEN StringOf(CellAt(ws, r, c)) ELSE <<>>

\* the (sheet position, column) pairs of the workbook whose header matches
\* the identifier pattern
MatchingPairs ==
    {p \in UNION {{<<i, c>> : c \in DecodeRange(workbook.Sheets[workbook.SheetNames[i]]).s.c
                                     ..DecodeRange(workbook.Sheets[workbook.SheetNames[i]]).e.c} :
                      i \in 1..Len(workbook.SheetNames)} :
        TestKeyPattern(RawHeader(workbook.Sheets[workbook.SheetNames[p[1]]], p[2]))}

\* the stringified values of the first five data rows of column c, top down
FirstFiveValues(ws, c) ==
    LET range == DecodeRange(ws)
        rows == {r \in (range.s.r + 1)..Min(range.s.r + 5, range.e.r) :
                    HasCell(ws, r, c) /\ CellAt(ws, r, c).vk # "undef"}
    IN  [k \in 1..Cardinality(rows) |->
            Text(StringOf(CellAt(ws, CHOOSE r \in rows :
                                         Cardinality({x \in rows : x < r}) = k - 1, c)))]

SheetIndex(sheetName) == CHOOSE i \in 1..Len(workbook.SheetNames) : workbook.SheetNames[i] = sheetName

IsCandidateOf(cand, p) ==
    /\ cand.sheet = workbook.SheetNames[p[1]]
    /\ cand.columnIndex = p[2]

\* C21: the preview's candidates are exactly the (sheet, column) pairs of the
\* whole workbook whose header matches the identifier pattern, one candidate
\* each, in sheet order and then column order; each carries the header, and
\* as samples the stringified values of the cells with a value among the
\* first five data rows, in row order, so at most five.
C21_KeyColumnCandidates ==
    preview # <<>> =>
        LET cands == preview[1].potentialKeyColumns
        IN  /\ Len(cands) = Cardinality(MatchingPairs)
            /\ \A p \in MatchingPairs :
                   Cardinality({i \in 1..Len(cands) : IsCandidateOf(cands[i], p)}) = 1
            /\ \A i \in 1..Len(cands) :
                   /\ \E p \in MatchingPairs : IsCandidateOf(cands[i], p)
                   /\ LET ws == workbook.Sheets[cands[i].sheet]
                      IN  /\ cands[i].column = Text(RawHeader(ws, cands[i].columnIndex))
                          /\ cands[i].sampleValues = FirstFiveValues(ws, cands[i].columnIndex)
                   /\ Len(cands[i].sampleValues) <= 5
            /\ \A i, j \in 1..Len(cands) :
                   i < j =>
                      \/ SheetIndex(cands[i].sheet) < SheetIndex(cands[j].sheet)
                      \/ /\ cands[i].sheet = cands[j].sheet
                         /\ cands[i].columnIndex < cands[j].columnIndex

\* a preview of a workbook of more than MAX_SHEETS sheets with more than
\* MAX_SHEETS candidates, one of them in a sheet beyond the sheet limit, and
\* two of them with the same header in different sheets
C21_Witness ==
    /\ preview # <<>>
    /\ Len(preview[1].potentialKeyColumns) > MAX_SHEETS
    /\ \E i, j \in 1..Len(preview[1].potentialKeyColumns) :
           /\ SheetIndex(preview[1].potentialKeyColumns[j].sheet) > MAX_SHEETS
           /\ preview[1].potentialKeyColumns[i].sheet # preview[1].potentialKeyColumns[j].sheet
           /\ preview[1].potentialKeyColumns[i].column = preview[1].potentialKeyColumns[j].column
           /\ preview[1].potentialKeyColumns[i].columnIndex
                  = preview[1].potentialKeyColumns[j].columnIndex

StringValues(ws, c) == {a \in DataValues(ws, c) : ws.cells[a].t = "s"}

TextDateWarnings(fs, sheetName, label) ==
    {j \in AnomaliesOf(fs, sheetName, label) :
        fs[j].description.tpl = "values appear to be text-formatted dates"}

MixedWarnings(fs, sheetName, label) ==
    {j \in AnomaliesOf(fs, sheetName, label) : fs[j].description.tpl = "Mixed data types"}

\* C26: in a finished run, every column of a processed sheet's clamped range
\* has one text-formatted-dates warning, reporting the count, if it has at
\* least 5 values and its date texts are more than 20% of them, and none
\* otherwise (exactly 20% included); a column with fewer than 5 values has no
\* Data Type Anomaly finding at all.
C26_DateTextThreshold ==
    pc = "done" =>
        \A sheetName \in Range(processed) :
            LET ws == workbook.Sheets[sheetName]
            IN  \A c \in ClampedColumns(ws) :
                    LET n == Cardinality(DataValues(ws, c))
                        d == Cardinality(DateTexts(ws, c))
                        mine == TextDateWarnings(findings, sheetName, ColumnLabel(ws, c))
                    IN  /\ Cardinality(mine) = (IF n >= 5 /\ 5 * d > n THEN 1 ELSE 0)
                        /\ \A j \in mine :
                               /\ findings[j].severity = "warning"
                               /\ findings[j].description.args[1] = NumText(d)
                        /\ n < 5 => AnomaliesOf(findings, sheetName, ColumnLabel(ws, c)) = {}

\* a finished run on a column of 5 values, 2 of them date texts, with its
\* text-formatted-dates warning
C26_Witness ==
    /\ pc = "done"
    /\ \E sheetName \in Range(processed) :
           \E c \in ClampedColumns(workbook.Sheets[sheetName]) :
               /\ Cardinality(DataValues(workbook.Sheets[sheetName], c)) = 5
               /\ Cardinality(DateTexts(workbook.Sheets[sheetName], c)) = 2
               /\ TextDateWarnings(findings, sheetName,
                                   ColumnLabel(workbook.Sheets[sheetName], c)) # {}

\* C27: in a finished run, every column of a processed sheet with at least 5
\* values has one mixed-type warning, reporting the numeric and the string
\* count, if more than 50% of its values are numeric cells and more than 20%
\* string cells, and none otherwise, whether or not the column has a
\* text-formatted-dates warning; the two warnings are separate findings.
C27_MixedThreshold ==
    pc = "done" =>
        \A sheetName \in Range(processed) :
            LET ws == workbook.Sheets[sheetName]
            IN  \A c \in ClampedColumns(ws) :
                    LET n == Cardinality(DataValues(ws, c))
                        num == Cardinality(NumericValues(ws, c))
                        str == Cardinality(StringValues(ws, c))
                        mine == MixedWarnings(findings, sheetName, ColumnLabel(ws, c))
                        dates == TextDateWarnings(findings, sheetName, ColumnLabel(ws, c))
                    IN  n >= 5 =>
                           /\ Cardinality(mine) =
                                  (IF 2 * num > n /\ 5 * str > n THEN 1 ELSE 0)
                           /\ \A j \in mine :
                                  /\ findings[j].severity = "warning"
                                  /\ findings[j].description.args
                                         = <<NumText(num), NumText(str)>>
                           /\ mine \cap dates = {}

\* a finished run on a column of 3 numbers and 2 date texts, which has both
\* warnings
C27_Witness ==
    /\ pc = "done"
    /\ \E sheetName \in Range(processed) :
           \E c \in ClampedColumns(workbook.Sheets[sheetName]) :
               /\ Cardinality(DataValues(workbook.Sheets[sheetName], c)) = 5
               /\ Cardinality(NumericValues(workbook.Sheets[sheetName], c)) = 3
               /\ MixedWarnings(findings, sheetName,
                                ColumnLabel(workbook.Sheets[sheetName], c)) # {}
               /\ TextDateWarnings(findings, sheetName,
                                   ColumnLabel(workbook.Sheets[sheetName], c)) # {}

RECURSIVE Pow26(_)
Pow26(k) == IF k = 0 THEN 1 ELSE 26 * Pow26(k - 1)

\* the number of letter strings shorter than k letters
RECURSIVE ShorterThan(_)
ShorterThan(k) == IF k <= 1 THEN 0 ELSE ShorterThan(k - 1) + Pow26(k - 1)

\* m written with k letters in base 26, A for 0
RECURSIVE InLetters(_, _)
InLetters(m, k) ==
    IF k = 0 THEN "" ELSE InLetters(m \div 26, k - 1) \o UpperChars[(m % 26) + 1]

\* the spreadsheet letters of column n: the strings of one letter, then of
\* two, and so on, each block in alphabetical order
SpreadsheetLetters(n) ==
    LET k == CHOOSE x \in 1..4 : ShorterThan(x) <= n /\ n < ShorterThan(x + 1)
    IN  InLetters(n - ShorterThan(k), k)

LetterReturned == letterCall # <<>> /\ letterCall[1].pc = "done"

LettersRight ==
    LetterReturned =>
        /\ letterCall[1].letter = SpreadsheetLetters(letterCall[1].index)
        /\ letterCall[1].letter = getColumnLetter(letterCall[1].index)
        /\ letterCall[1].index = 0 => letterCall[1].letter = "A"
        /\ letterCall[1].index = 25 => letterCall[1].letter = "Z"
        /\ letterCall[1].index = 26 => letterCall[1].letter = "AA"
        /\ letterCall[1].index = 701 => letterCall[1].letter = "ZZ"
        /\ letterCall[1].index = 702 => letterCall[1].letter = "AAA"
        /\ \A j \in 0..MaxIndex :
               j # letterCall[1].index => getColumnLetter(j) # letterCall[1].letter

\* C28: getColumnLetter returns for every index from 0 on, and returns the
\* spreadsheet letters of the column (0 -> A, 25 -> Z, 26 -> AA, 701 -> ZZ,
\* 702 -> AAA), which no other index yields.
C28_ColumnLetters == []LettersRight /\ <>LetterReturned

\* the call for index 702 has returned AAA after three iterations
C28_Witness ==
    /\ LetterReturned
    /\ letterCall[1].index = 702
    /\ letterCall[1].letter = "AAA"

(***************************************************************************)
(* rateLimit.ts: the in-memory rate limiter.                               *)
(***************************************************************************)
CLEANUP_INTERVAL == 5 * 60 * 1000

RATE_LIMITS ==
    [ HEAVY |-> [maxRequests |-> 10, windowMs |-> 60 * 60 * 1000],
      LIGHT |-> [maxRequests |-> 30, windowMs |-> 60 * 60 * 1000] ]

\* Map.set(k, v) and Map.delete(k)
MapSet(m, k, v) == [x \in DOMAIN m \cup {k} |-> IF x = k THEN v ELSE m[x]]
MapDelete(m, k) == [x \in DOMAIN m \ {k} |-> m[x]]

\* the address has an entry whose window has not ended at time t
RateWindowOpen(store, ip, t) == ip \in DOMAIN store /\ t < store[ip].resetAt

\* checkRateLimit(ip, config) at time t: what it returns, and the store
\* it leaves
checkRateLimit(store, ip, config, t) ==
    IF ~RateWindowOpen(store, ip, t)
    THEN [ allowed |-> TRUE,
           store |-> MapSet(store, ip, [count |-> 1, resetAt |-> t + config.windowMs]) ]
    ELSE IF store[ip].count >= config.maxRequests
    THEN [ allowed |-> FALSE,
           remaining |-> store[ip].resetAt - t,
           resetAt |-> store[ip].resetAt,
           store |-> store ]
    ELSE [ allowed |-> TRUE,
           store |-> MapSet(store, ip, [count |-> store[ip].count + 1,
                                        resetAt |-> store[ip].resetAt]) ]

\* history: the requests of each class that were allowed to the address in
\* its current window, the hour that starts with the first request allowed
\* after the window before it has ended
ServedWindowOpen(ip) ==
    ip \in DOMAIN served /\ now < served[ip].start + RATE_LIMITS.HEAVY.windowMs

ServedIn(ip, class) == IF ServedWindowOpen(ip) THEN served[ip][class] ELSE 0

ServedAfter(ip, class) ==
    IF ~checkRateLimit(rateLimitStore, ip, RATE_LIMITS[class], now).allowed
    THEN served
    ELSE MapSet(served, ip,
                [start |-> IF ServedWindowOpen(ip) THEN served[ip].start ELSE now,
                 HEAVY |-> ServedIn(ip, "HEAVY") + (IF class = "HEAVY" THEN 1 ELSE 0),
                 LIGHT |-> ServedIn(ip, "LIGHT") + (IF class = "LIGHT" THEN 1 ELSE 0)])

\* the callback of startCleanup()'s setInterval
RateCleanupStore(store, t) ==
    [ip \in {i \in DOMAIN store : ~(t >= store[i].resetAt)} |-> store[ip]]

ClientIps == <<"203.0.113.7", "198.51.100.9">>

RateInit ==
    /\ IdleCall
    /\ IdleScore
    /\ IdleOthers

\* checkRateLimit(ip, RATE_LIMITS[class]) called on its own
CheckRateLimit ==
    /\ \E i \in 1..Len(ClientIps), class \in {"HEAVY", "LIGHT"} :
        LET ip == ClientIps[i]
            r == checkRateLimit(rateLimitStore, ip, RATE_LIMITS[class], now)
        IN  /\ i > 1 => ServedIn(ip, "HEAVY") + ServedIn(ip, "LIGHT") < MaxOtherRequests
            /\ request' = << [op |-> "checkRateLimit", ip |-> ip, class |-> class, at |-> now] >>
            /\ response' = << [allowed |-> r.allowed] >>
            /\ rateLimitStore' = r.store
            /\ served' = ServedAfter(ip, class)
    /\ UNCHANGED <<inputVars, callVars, now, scoreVars, preview, letterCall,
                   fileStore, tmpFiles, r2Bucket, stripeSessions, cookie, routeCall>>

\* the clock moves to the last millisecond of an open window, or to its end
RateAdvance ==
    /\ \E ip \in DOMAIN rateLimitStore :
        \E t \in {rateLimitStore[ip].resetAt - 1, rateLimitStore[ip].resetAt} :
            /\ t > now
            /\ t <= MaxWindows * RATE_LIMITS.HEAVY.windowMs
            /\ now' = t
    /\ UNCHANGED <<inputVars, callVars, scoreVars, otherCalls>>

\* the interval timer of the limiter fires
RateCleanup ==
    /\ now > 0
    /\ now % CLEANUP_INTERVAL = 0
    /\ rateLimitStore' = RateCleanupStore(rateLimitStore, now)
    /\ rateLimitStore' # rateLimitStore
    /\ UNCHANGED <<inputVars, callVars, now, scoreVars, preview, letterCall,
                   served, fileStore, tmpFiles, r2Bucket, stripeSessions,
                   cookie, request, response, routeCall>>

RateNext == CheckRateLimit \/ RateAdvance \/ RateCleanup

RateSpec == RateInit /\ [][RateNext]_vars

\* C23: for each address and window, a heavy request is allowed exactly when
\* fewer than 10 heavy requests of the address were allowed in the window,
\* and a light request exactly when fewer than 30 light ones were; the two
\* classes are counted apart.
C23_PerClassLimits ==
    [][ \A i \in 1..Len(ClientIps), class \in {"HEAVY", "LIGHT"} :
            ( /\ <<request, response, served>>' # <<request, response, served>>
              /\ request'[1].op = "checkRateLimit"
              /\ request'[1].ip = ClientIps[i]
              /\ request'[1].class = class )
            => ( response'[1].allowed
                 <=> ServedIn(ClientIps[i], class) < RATE_LIMITS[class].maxRequests )
      ]_vars

(***************************************************************************)
(* storage.ts: the in-memory file store.                                   *)
(***************************************************************************)
FILE_EXPIRY == 30 * 60 * 1000

StoredFile(id, name, buffer, t) ==
    [id |-> id, fileName |-> name, buffer |-> buffer, uploadedAt |-> t,
     analysisResult |-> <<>>]

FileExpired(store, id, t) == t - store[id].uploadedAt > FILE_EXPIRY

storeFile(store, id, name, buffer, t) == MapSet(store, id, StoredFile(id, name, buffer, t))

\* getFile(id) at time t: what it returns (<<>> for null) and the store it
\* leaves
getFile(store, id, t) ==
    IF id \notin DOMAIN store
    THEN [returned |-> <<>>, store |-> store]
    ELSE IF FileExpired(store, id, t)
    THEN [returned |-> <<>>, store |-> MapDelete(store, id)]
    ELSE [returned |-> <<store[id]>>, store |-> store]

storeAnalysisResult(store, id, r) ==
    IF id \in DOMAIN store
    THEN MapSet(store, id, [store[id] EXCEPT !.analysisResult = <<r>>])
    ELSE store

getAnalysisResult(store, id) ==
    IF id \in DOMAIN store THEN store[id].analysisResult ELSE <<>>

fileExists(store, id, t) ==
    IF id \notin DOMAIN store
    THEN [returned |-> FALSE, store |-> store]
    ELSE IF FileExpired(store, id, t)
    THEN [returned |-> FALSE, store |-> MapDelete(store, id)]
    ELSE [returned |-> TRUE, store |-> store]

\* the callback of startCleanupInterval()'s setInterval
SweepFiles(store, t) ==
    [id \in {i \in DOMAIN store : ~FileExpired(store, i, t)} |-> store[id]]

\* the sweep is due at the multiples of CLEANUP_INTERVAL after the module
\* was loaded
SweepDue(t) == t > 0 /\ t % CLEANUP_INTERVAL = 0

\* the clock readings looked at: each multiple of CLEANUP_INTERVAL and the
\* millisecond after it
NextReading(t) ==
    IF t % CLEANUP_INTERVAL = 0 THEN t + 1 ELSE ((t \div CLEANUP_INTERVAL) + 1) * CLEANUP_INTERVAL

StoreIds == {"file-1"}

StoreInit ==
    /\ IdleCall
    /\ IdleScore
    /\ IdleOthers

StoreFile ==
    /\ \E id \in StoreIds :
          fileStore' = storeFile(fileStore, id, id \o ".xlsx", <<Workbook(<<>>, "plain")>>, now)
    /\ UNCHANGED <<inputVars, callVars, now, scoreVars, preview, letterCall,
                   rateLimitStore, served, tmpFiles, r2Bucket, stripeSessions,
                   cookie, request, response, routeCall>>

StoreAnalysisResult ==
    /\ \E id \in StoreIds :
          /\ fileStore' = storeAnalysisResult(fileStore, id,
                              ResultRecord(id, id \o ".xlsx", <<>>, <<>>, 0))
          /\ fileStore' # fileStore
    /\ UNCHANGED <<inputVars, callVars, now, scoreVars, preview, letterCall,
                   rateLimitStore, served, tmpFiles, r2Bucket, stripeSessions,
                   cookie, request, response, routeCall>>

GetFile ==
    /\ \E id \in StoreIds :
          /\ request' = << [op |-> "getFile", id |-> id, at |-> now] >>
          /\ response' = << [returned |-> getFile(fileStore, id, now).returned] >>
          /\ fileStore' = getFile(fileStore, id, now).store
    /\ UNCHANGED <<inputVars, callVars, now, scoreVars, preview, letterCall,
                   rateLimitStore, served, tmpFiles, r2Bucket, stripeSessions,
                   cookie, routeCall>>

FileExists ==
    /\ \E id \in StoreIds :
          /\ request' = << [op |-> "fileExists", id |-> id, at |-> now] >>
          /\ response' = << [returned |-> fileExists(fileStore, id, now).returned] >>
          /\ fileStore' = fileExists(fileStore, id, now).store
    /\ UNCHANGED <<inputVars, callVars, now, scoreVars, preview, letterCall,
                   rateLimitStore, served, tmpFiles, r2Bucket, stripeSessions,
                   cookie, routeCall>>

GetAnalysisResult ==
    /\ \E id \in StoreIds :
          /\ request' = << [op |-> "getAnalysisResult", id |-> id, at |-> now] >>
          /\ response' = << [returned |-> getAnalysisResult(fileStore, id)] >>
    /\ UNCHANGED <<inputVars, callVars, now, scoreVars, preview, letterCall,
                   rateLimitStore, served, fileStore, tmpFiles, r2Bucket,
                   stripeSessions, cookie, routeCall>>

\* the interval timer of the store fires
Sweep ==
    /\ SweepDue(now)
    /\ fileStore' = SweepFiles(fileStore, now)
    /\ fileStore' # fileStore
    /\ UNCHANGED <<inputVars, callVars, now, scoreVars, preview, letterCall,
                   rateLimitStore, served, tmpFiles, r2Bucket, stripeSessions,
                   cookie, request, response, routeCall>>

\* the clock moves on; a sweep that is due runs before it does
StoreAdvance ==
    /\ SweepDue(now) => SweepFiles(fileStore, now) = fileStore
    /\ NextReading(now) <= MaxSweeps * CLEANUP_INTERVAL + 1
    /\ now' = NextReading(now)
    /\ UNCHANGED <<inputVars, callVars, scoreVars, otherCalls>>

StoreNext ==
    \/ StoreFile
    \/ StoreAnalysisResult
    \/ GetFile
    \/ FileExists
    \/ GetAnalysisResult
    \/ Sweep
    \/ StoreAdvance

StoreSpec == StoreInit /\ [][StoreNext]_vars

\* C24: once more than 30 minutes have passed since storeFile(id), no read
\* returns data for id: getFile gives null, fileExists false and
\* getAnalysisResult null, whenever the read falls between the sweeps.
C24_NoDataAfterExpiry ==
    [][ \A id \in StoreIds :
            ( /\ <<request, response>>' # <<request, response>>
              /\ request'[1].op \in {"getFile", "fileExists", "getAnalysisResult"}
              /\ request'[1].id = id
              /\ now' = now
              /\ id \in DOMAIN fileStore
              /\ now - fileStore[id].uploadedAt > FILE_EXPIRY )
            => IF request'[1].op = "fileExists"
               THEN response'[1].returned = FALSE
               ELSE response'[1].returned = <<>>
      ]_vars

(***************************************************************************)
(* session.ts, tmpFiles.ts, r2-storage.ts, stripe.ts as the routes use     *)
(* them.  A Buffer is <<workbook>> when XLSX.read can parse it and <<>>    *)
(* when it cannot.                                                         *)
(***************************************************************************)
SESSION_EXPIRY_MINUTES == 30
TTL_MS == 30 * 60 * 1000
MAX_FILE_BYTES == 10 * 1024 * 1024
ALLOWED_EXTENSIONS == {".xlsx", ".xls"}
ALLOWED_MIME_TYPES ==
    {"application/vnd.openxmlformats-officedocument.spreadsheetml.sheet",
     "application/vnd.ms-excel"}

\* createSession(payload) at time t: the signed token, with the exp claim
\* in seconds
createSession(payload, t) ==
    LET expiresAt == t + SESSION_EXPIRY_MINUTES * 60 * 1000
    IN  [fileId |-> payload.fileId,
         fileName |-> payload.fileName,
         paid |-> payload.paid,
         selectedKeyColumn |-> payload.selectedKeyColumn,
         createdAt |-> t,
         expiresAt |-> expiresAt,
         exp |-> expiresAt \div 1000,
         signed |-> TRUE]

\* jwtVerify(token, key): the signature is the server's and the exp claim
\* lies after the clock's second
JwtVerifies(token, t) == token.signed /\ ~(token.exp <= t \div 1000)

\* mutant: the token is decoded without jwtVerify
verifySessionUnverified(token, t) ==
    IF token.expiresAt < t THEN <<>>
    ELSE <<token>>

\* verifySession(token): <<payload>>, or <<>> for null
verifySession(token, t) ==
    IF ~JwtVerifies(token, t) THEN <<>>
    ELSE IF token.expiresAt < t THEN <<>>
    ELSE <<token>>

\* getSessionFromCookie() for a request that carries the cookie value tok
getSessionFromCookie(tok, t) ==
    IF tok = <<>> THEN <<>> ELSE verifySession(tok[1], t)

markSessionAsPaid(currentSession, t) ==
    createSession([fileId |-> currentSession.fileId,
                   fileName |-> currentSession.fileName,
                   paid |-> TRUE,
                   selectedKeyColumn |-> currentSession.selectedKeyColumn], t)

saveTempFile(tmp, id, buffer, t) == MapSet(tmp, id, [buffer |-> buffer, mtimeMs |-> t])

\* readTempFile(fileId): <<buffer>>, or <<>> for null
readTempFile(tmp, id) == IF id \in DOMAIN tmp THEN <<tmp[id].buffer>> ELSE <<>>

cleanupOldTempFiles(tmp, t) ==
    [id \in {i \in DOMAIN tmp : ~(t - tmp[i].mtimeMs > TTL_MS)} |-> tmp[id]]

isR2Configured == r2Bucket.configured

\* downloadFromR2(fileId): <<buffer>>, or <<>> for null (NoSuchKey).  No
\* route calls uploadToR2, so the bucket never gets an object.
downloadFromR2(id) == IF id \in DOMAIN r2Bucket.objects THEN <<r2Bucket.objects[id]>> ELSE <<>>

\* the three-step lookup of the analyze and checkout routes: the in-memory
\* store, else R2 when it is configured, else /tmp
LookupBuffer(stored, tmp, id) ==
    LET first == IF stored # <<>> THEN <<stored[1].buffer>>
                 ELSE IF isR2Configured THEN downloadFromR2(id)
                 ELSE <<>>
    IN  IF first # <<>> THEN first ELSE readTempFile(tmp, id)

\* stripe.checkout.sessions.create(...) of createCheckoutSession
FreshCheckoutId ==
    LET k == CHOOSE i \in 1..(MaxCheckouts + 1) :
                 /\ ("cs-" \o NumText(i)) \notin DOMAIN stripeSessions
                 /\ \A j \in 1..(i - 1) : ("cs-" \o NumText(j)) \in DOMAIN stripeSessions
    IN  "cs-" \o NumText(k)

createCheckoutSession(id, name) ==
    [id |-> FreshCheckoutId,
     payment_status |-> "unpaid",
     metadata |-> [fileId |-> id, fileName |-> name]]

\* uuidv4() for a file: an id no service knows
KnownFileIds ==
    DOMAIN fileStore \cup DOMAIN tmpFiles
    \cup {stripeSessions[s].metadata.fileId : s \in DOMAIN stripeSessions}
    \cup {cookie[i].fileId : i \in 1..Len(cookie)}

FreshFileId ==
    LET k == CHOOSE i \in 1..(MaxUploads + 1) :
                 /\ ("file-" \o NumText(i)) \notin KnownFileIds
                 /\ \A j \in 1..(i - 1) : ("file-" \o NumText(j)) \in KnownFileIds
    IN  "file-" \o NumText(k)

\* ERRORS.X(): the JSON body and the status
ErrorResponse(code, status) == [ok |-> FALSE, code |-> code, status |-> status]

ERRORS ==
    [ FILE_TOO_LARGE |-> ErrorResponse("FILE_TOO_LARGE", 413),
      INVALID_FILE_TYPE |-> ErrorResponse("INVALID_FILE_TYPE", 400),
      EMPTY_FILE |-> ErrorResponse("EMPTY_FILE", 400),
      RATE_LIMIT |-> ErrorResponse("RATE_LIMIT", 429),
      INTERNAL |-> ErrorResponse("INTERNAL", 500),
      SESSION_EXPIRED |-> ErrorResponse("SESSION_EXPIRED", 401),
      PAYMENT_REQUIRED |-> ErrorResponse("PAYMENT_REQUIRED", 402),
      FILE_EXPIRED |-> ErrorResponse("FILE_EXPIRED", 404),
      PARSE_ERROR |-> ErrorResponse("PARSE_ERROR", 400) ]

(***************************************************************************)
(* The requests of one browser at one address.                             *)
(***************************************************************************)
ClientIp == ClientIps[1]

\* a token the server never signed, claiming a paid session
ForgedToken ==
    [fileId |-> "file-1", fileName |-> "book.xlsx", paid |-> TRUE,
     selectedKeyColumn |-> <<>>, createdAt |-> 0,
     expiresAt |-> 24 * 60 * 60 * 1000, exp |-> 24 * 60 * 60, signed |-> FALSE]

\* what a request to a gated route carries as its cookie: the browser's, or
\* the forged one (the other routes treat a forged cookie as no cookie)
PresentedTokens == {cookie, <<ForgedToken>>}

\* column A "id" with the values 1, 2, 1, 3, 2, 2
FlowBook == Workbook(<<ColumnSheet(<<<<StrCell(Txt.id)>>>> \o Numbers(<<1, 2, 1, 3, 2, 2>>))>>, "plain")

XlsxType == "application/vnd.openxmlformats-officedocument.spreadsheetml.sheet"

\* the form's file field: absent, or a File
UploadInputs ==
    { <<>>,
      <<[stem |-> "book", ext |-> ".xlsx", type |-> XlsxType, size |-> 2048,
         buffer |-> <<FlowBook>>]>>,
      <<[stem |-> "keys", ext |-> ".xls", type |-> "", size |-> 1024,
         buffer |-> <<Workbook(<<ConstructorSheet>>, "plain")>>]>>,
      <<[stem |-> "book", ext |-> ".xlsx", type |-> XlsxType, size |-> 0,
         buffer |-> <<>>]>>,
      <<[stem |-> "notes", ext |-> ".csv", type |-> "text/csv", size |-> 64,
         buffer |-> <<>>]>>,
      <<[stem |-> "big", ext |-> ".xlsx", type |-> XlsxType, size |-> MAX_FILE_BYTES + 1,
         buffer |-> <<FlowBook>>]>>,
      <<[stem |-> "torn", ext |-> ".xlsx", type |-> XlsxType, size |-> 512,
         buffer |-> <<>>]>> }

\* file.name.toLowerCase().endsWith(ext) for a name given as stem and
\* extension
isValidType(file) == file.type \in ALLOWED_MIME_TYPES \/ file.ext \in ALLOWED_EXTENSIONS

\* the request and the answer of a handler
Respond(route, tok, body, answer) ==
    /\ request' = << [route |-> route, ip |-> ClientIp, token |-> tok, at |-> now] >>
    /\ response' = << answer >>

\* the limiter as every route calls it first
Limited(class) == ~checkRateLimit(rateLimitStore, ClientIp, RATE_LIMITS[class], now).allowed

CountRequest(class) ==
    /\ rateLimitStore' = checkRateLimit(rateLimitStore, ClientIp, RATE_LIMITS[class], now).store
    /\ served' = ServedAfter(ClientIp, class)
    /\ ServedIn(ClientIp, "HEAVY") + ServedIn(ClientIp, "LIGHT") < MaxRequests

\* POST /api/upload
Upload ==
    /\ routeCall = <<>>
    /\ \E tok \in {cookie}, input \in UploadInputs :
        LET tmp == cleanupOldTempFiles(tmpFiles, now)
            existingSession == getSessionFromCookie(tok, now)
            isPaidReupload == existingSession # <<>> /\ existingSession[1].paid = TRUE
            newId == FreshFileId
            file == input[1]
            fileNameOf == file.stem \o file.ext
        IN  /\ CountRequest("LIGHT")
            /\ IF Limited("LIGHT") \/ input = <<>> \/ file.size = 0 \/ ~isValidType(file)
                  \/ file.size > MAX_FILE_BYTES
               THEN /\ Respond("upload", tok, input,
                               IF Limited("LIGHT") THEN ERRORS.RATE_LIMIT
                               ELSE IF input = <<>> THEN ERRORS.INVALID_FILE_TYPE
                               ELSE IF file.size = 0 THEN ERRORS.EMPTY_FILE
                               ELSE IF ~isValidType(file) THEN ERRORS.INVALID_FILE_TYPE
                               ELSE ERRORS.FILE_TOO_LARGE)
                    /\ tmpFiles' = tmp
                    /\ UNCHANGED <<fileStore, cookie>>
               ELSE /\ newId \in {"file-" \o NumText(k) : k \in 1..MaxUploads}
                    /\ fileStore' = storeFile(fileStore, newId, fileNameOf, file.buffer, now)
                    /\ tmpFiles' = saveTempFile(tmp, newId, file.buffer, now)
                    /\ IF file.buffer = <<>>
                       THEN /\ Respond("upload", tok, input, ERRORS.PARSE_ERROR)
                            /\ cookie' = cookie
                       ELSE /\ Respond("upload", tok, input,
                                       [ok |-> TRUE, status |-> 200,
                                        preview |-> generatePreview(file.buffer[1], newId,
                                                                    fileNameOf, file.size)])
                            /\ cookie' = << createSession(
                                   [fileId |-> newId,
                                    fileName |-> fileNameOf,
                                    paid |-> isPaidReupload,
                                    selectedKeyColumn |->
                                        IF existingSession = <<>> THEN <<>>
                                        ELSE existingSession[1].selectedKeyColumn], now) >>
    /\ UNCHANGED <<inputVars, callVars, now, scoreVars, preview, letterCall,
                   r2Bucket, stripeSessions, routeCall>>

\* the body of a checkout request: no selection, or column A of sheet S1
CheckoutBodies == {<<>>, KeyColumn("S1", 0)}

\* POST /api/checkout
Checkout ==
    /\ routeCall = <<>>
    /\ \E tok \in {cookie}, body \in CheckoutBodies :
        LET tmp == cleanupOldTempFiles(tmpFiles, now)
            session == getSessionFromCookie(tok, now)
            storedFile == getFile(fileStore, session[1].fileId, now)
            found == LookupBuffer(storedFile.returned, tmp, session[1].fileId) # <<>>
            selected == IF body # <<>> THEN body ELSE session[1].selectedKeyColumn
            checkoutSession == createCheckoutSession(session[1].fileId, session[1].fileName)
        IN  /\ CountRequest("LIGHT")
            /\ tmpFiles' = tmp
            /\ IF Limited("LIGHT") \/ session = <<>>
               THEN /\ Respond("checkout", tok, body,
                               IF Limited("LIGHT") THEN ERRORS.RATE_LIMIT
                               ELSE ERRORS.SESSION_EXPIRED)
                    /\ UNCHANGED <<fileStore, cookie, stripeSessions>>
               ELSE /\ fileStore' = storedFile.store
                    /\ IF ~found
                       THEN /\ Respond("checkout", tok, body, ERRORS.FILE_EXPIRED)
                            /\ UNCHANGED <<cookie, stripeSessions>>
                       ELSE /\ checkoutSession.id \in
                                   {"cs-" \o NumText(k) : k \in 1..MaxCheckouts}
                            /\ cookie' = IF body # <<>>
                                         THEN << createSession(
                                                   [fileId |-> session[1].fileId,
                                                    fileName |-> session[1].fileName,
                                                    paid |-> session[1].paid,
                                                    selectedKeyColumn |-> selected], now) >>
                                         ELSE cookie
                            /\ stripeSessions' =
                                   MapSet(stripeSessions, checkoutSession.id, checkoutSession)
                            /\ Respond("checkout", tok, body,
                                       [ok |-> TRUE, status |-> 200,
                                        sessionId |-> checkoutSession.id])
    /\ UNCHANGED <<inputVars, callVars, now, scoreVars, preview, letterCall,
                   r2Bucket, routeCall>>

\* the customer pays on Stripe's checkout page
Pay ==
    /\ \E s \in DOMAIN stripeSessions :
          /\ stripeSessions[s].payment_status = "unpaid"
          /\ stripeSessions' = [stripeSessions EXCEPT ![s].payment_status = "paid"]
    /\ UNCHANGED <<inputVars, callVars, now, scoreVars, preview, letterCall,
                   rateLimitStore, served, fileStore, tmpFiles, r2Bucket,
                   cookie, request, response, routeCall>>

\* the sessionId of a verify-payment body: none, one Stripe knows, or one it
\* does not know
VerifyBodies == {""} \cup DOMAIN stripeSessions \cup {"cs-0"}

\* POST /api/verify-payment
VerifyPayment ==
    /\ routeCall = <<>>
    /\ \E tok \in {cookie}, sessionId \in VerifyBodies :
        LET session == getSessionFromCookie(tok, now)
            checkoutSession == stripeSessions[sessionId]
        IN  /\ CountRequest("LIGHT")
            /\ IF Limited("LIGHT")
               THEN Respond("verify-payment", tok, sessionId, ERRORS.RATE_LIMIT)
                    /\ cookie' = cookie
               ELSE IF sessionId = ""
               THEN Respond("verify-payment", tok, sessionId, ERRORS.INTERNAL)
                    /\ cookie' = cookie
               ELSE IF session = <<>>
               THEN Respond("verify-payment", tok, sessionId, ERRORS.SESSION_EXPIRED)
                    /\ cookie' = cookie
               ELSE IF session[1].paid
               THEN Respond("verify-payment", tok, sessionId,
                            [ok |-> TRUE, status |-> 200, paid |-> TRUE])
                    /\ cookie' = cookie
               ELSE IF sessionId \notin DOMAIN stripeSessions
               THEN Respond("verify-payment", tok, sessionId, ERRORS.INTERNAL)
                    /\ cookie' = cookie
               ELSE IF checkoutSession.payment_status # "paid"
               THEN Respond("verify-payment", tok, sessionId,
                            [ok |-> FALSE, status |-> 200, paid |-> FALSE,
                             code |-> "PAYMENT_NOT_COMPLETE"])
                    /\ cookie' = cookie
               ELSE IF checkoutSession.metadata.fileId # session[1].fileId
               THEN Respond("verify-payment", tok, sessionId, ERRORS.INTERNAL)
                    /\ cookie' = cookie
               ELSE Respond("verify-payment", tok, sessionId,
                            [ok |-> TRUE, status |-> 200, paid |-> TRUE])
                    /\ cookie' = << markSessionAsPaid(session[1], now) >>
    /\ UNCHANGED <<inputVars, callVars, now, scoreVars, preview, letterCall,
                   fileStore, tmpFiles, r2Bucket, stripeSessions, routeCall>>

\* no analyzeWorkbook call is running
NoCall ==
    /\ workbook = Workbook(<<>>, "plain")
    /\ selectedKeyColumn = <<>>
    /\ fileId = ""
    /\ fileName = ""
    /\ pc = "idle"
    /\ sheets = <<>>
    /\ findings = <<>>
    /\ sheetIdx = 0
    /\ processed = <<>>
    /\ result = <<>>

\* analyzeWorkbook(buffer, session.fileId, session.fileName,
\* session.selectedKeyColumn) is entered
EnterAnalyzeWorkbook(buffer, session) ==
    /\ workbook' = buffer[1]
    /\ selectedKeyColumn' = session.selectedKeyColumn
    /\ fileId' = session.fileId
    /\ fileName' = session.fileName
    /\ pc' = "start"
    /\ UNCHANGED <<sheets, findings, sheetIdx, processed, result>>

\* POST /api/analyze up to its answer, or up to the call of analyzeWorkbook
Analyze ==
    /\ routeCall = <<>>
    /\ \E tok \in PresentedTokens :
        LET tmp == cleanupOldTempFiles(tmpFiles, now)
            session == getSessionFromCookie(tok, now)
            existingResult == getAnalysisResult(fileStore, session[1].fileId)
            storedFile == getFile(fileStore, session[1].fileId, now)
            buffer == LookupBuffer(storedFile.returned, tmp, session[1].fileId)
        IN  /\ CountRequest("HEAVY")
            /\ tmpFiles' = tmp
            /\ IF Limited("HEAVY") \/ session = <<>> \/ ~session[1].paid
               THEN /\ Respond("analyze", tok, <<>>,
                               IF Limited("HEAVY") THEN ERRORS.RATE_LIMIT
                               ELSE IF session = <<>> THEN ERRORS.SESSION_EXPIRED
                               ELSE ERRORS.PAYMENT_REQUIRED)
                    /\ UNCHANGED <<fileStore, routeCall, inputVars, pc, sheets, findings,
                                   sheetIdx, processed, result>>
               ELSE IF existingResult # <<>>
               THEN /\ Respond("analyze", tok, <<>>,
                               [ok |-> TRUE, status |-> 200, result |-> existingResult[1]])
                    /\ UNCHANGED <<fileStore, routeCall, inputVars, pc, sheets, findings,
                                   sheetIdx, processed, result>>
               ELSE /\ fileStore' = storedFile.store
                    /\ IF buffer = <<>> \/ buffer[1] = <<>>
                       THEN \* ERRORS has no member FILE_MISSING_REUPLOAD, and
                            \* XLSX.read throws on bytes it cannot parse: both
                            \* end in the catch block
                            /\ Respond("analyze", tok, <<>>, ERRORS.INTERNAL)
                            /\ UNCHANGED <<routeCall, inputVars, pc, sheets, findings,
                                           sheetIdx, processed, result>>
                       ELSE /\ request' = << [route |-> "analyze", ip |-> ClientIp,
                                              token |-> tok, at |-> now] >>
                            /\ response' = <<>>
                            /\ routeCall' = << [route |-> "analyze", session |-> session[1]] >>
                            /\ EnterAnalyzeWorkbook(buffer[1], session[1])
    /\ UNCHANGED <<prevResult, uuidSeed, now, scoreVars, preview, letterCall,
                   r2Bucket, stripeSessions, cookie>>

\* the locals of the handler are gone
LeaveAnalyzeWorkbook ==
    /\ workbook' = Workbook(<<>>, "plain")
    /\ selectedKeyColumn' = <<>>
    /\ fileId' = ""
    /\ fileName' = ""
    /\ pc' = "idle"
    /\ sheets' = <<>>
    /\ findings' = <<>>
    /\ sheetIdx' = 0
    /\ processed' = <<>>
    /\ result' = <<>>

\* POST /api/analyze after analyzeWorkbook returned or threw
AnalyzeReturn ==
    /\ routeCall # <<>>
    /\ routeCall[1].route = "analyze"
    /\ pc \in {"done", "failed"}
    /\ IF pc = "done"
       THEN /\ fileStore' = storeAnalysisResult(fileStore, routeCall[1].session.fileId,
                                                result[1])
            /\ response' = << [ok |-> TRUE, status |-> 200, result |-> result[1]] >>
       ELSE /\ fileStore' = fileStore
            /\ response' = << ERRORS.INTERNAL >>
    /\ routeCall' = <<>>
    /\ LeaveAnalyzeWorkbook
    /\ UNCHANGED <<prevResult, uuidSeed, now, scoreVars, preview, letterCall,
                   rateLimitStore, served, tmpFiles, r2Bucket, stripeSessions,
                   cookie, request>>

\* GET /api/report/download up to its answer, or up to the call of
\* analyzeWorkbook
Download ==
    /\ routeCall = <<>>
    /\ \E tok \in PresentedTokens :
        LET tmp == cleanupOldTempFiles(tmpFiles, now)
            session == getSessionFromCookie(tok, now)
            existingResult == getAnalysisResult(fileStore, session[1].fileId)
            buffer == readTempFile(tmp, session[1].fileId)
        IN  /\ CountRequest("HEAVY")
            /\ tmpFiles' = tmp
            /\ IF Limited("HEAVY") \/ session = <<>> \/ ~session[1].paid
               THEN /\ Respond("download", tok, <<>>,
                               IF Limited("HEAVY") THEN ERRORS.RATE_LIMIT
                               ELSE IF session = <<>> THEN ERRORS.SESSION_EXPIRED
                               ELSE ERRORS.PAYMENT_REQUIRED)
                    /\ UNCHANGED <<routeCall, inputVars, pc, sheets, findings,
                                   sheetIdx, processed, result>>
               ELSE IF existingResult # <<>>
               THEN /\ Respond("download", tok, <<>>,
                               [ok |-> TRUE, status |-> 200, pdf |-> existingResult[1]])
                    /\ UNCHANGED <<routeCall, inputVars, pc, sheets, findings,
                                   sheetIdx, processed, result>>
               ELSE IF buffer = <<>> \/ buffer[1] = <<>>
               THEN /\ Respond("download", tok, <<>>,
                               IF buffer = <<>> THEN ERRORS.FILE_EXPIRED ELSE ERRORS.INTERNAL)
                    /\ UNCHANGED <<routeCall, inputVars, pc, sheets, findings,
                                   sheetIdx, processed, result>>
               ELSE /\ request' = << [route |-> "download", ip |-> ClientIp,
                                      token |-> tok, at |-> now] >>
                    /\ response' = <<>>
                    /\ routeCall' = << [route |-> "download", session |-> session[1]] >>
                    /\ EnterAnalyzeWorkbook(buffer[1], session[1])
    /\ UNCHANGED <<prevResult, uuidSeed, now, scoreVars, preview, letterCall,
                   fileStore, r2Bucket, stripeSessions, cookie>>

\* GET /api/report/download after analyzeWorkbook returned or threw: the
\* PDF is generated from the result, which is not stored
DownloadReturn ==
    /\ routeCall # <<>>
    /\ routeCall[1].route = "download"
    /\ pc \in {"done", "failed"}
    /\ response' = IF pc = "done"
                   THEN << [ok |-> TRUE, status |-> 200, pdf |-> result[1]] >>
                   ELSE << ERRORS.INTERNAL >>
    /\ routeCall' = <<>>
    /\ LeaveAnalyzeWorkbook
    /\ UNCHANGED <<prevResult, uuidSeed, now, scoreVars, preview, letterCall,
                   rateLimitStore, served, fileStore, tmpFiles, r2Bucket,
                   stripeSessions, cookie, request>>

\* the next request is served by a fresh invocation: the module state and
\* /tmp start empty
NewInvocation ==
    /\ routeCall = <<>>
    /\ fileStore # EmptyMap \/ tmpFiles # EmptyMap
    /\ fileStore' = EmptyMap
    /\ tmpFiles' = EmptyMap
    /\ rateLimitStore' = EmptyMap
    /\ UNCHANGED <<inputVars, callVars, now, scoreVars, preview, letterCall, served,
                   r2Bucket, stripeSessions, cookie, request, response, routeCall>>

\* the clock readings at which requests are made: 0, 30 minutes, and the
\* sweeps after it
NextFlowReading(t) == IF t = 0 THEN FILE_EXPIRY ELSE t + CLEANUP_INTERVAL

\* the clock moves on between two requests; a sweep that is due runs first
FlowAdvance ==
    /\ routeCall = <<>>
    /\ SweepDue(now) => SweepFiles(fileStore, now) = fileStore
    /\ NextFlowReading(now) <= FILE_EXPIRY + (MaxAdvances - 1) * CLEANUP_INTERVAL
    /\ now' = NextFlowReading(now)
    /\ UNCHANGED <<inputVars, callVars, scoreVars, otherCalls>>

\* Where the flow is taken up.  "blank": nothing uploaded yet.  "uploaded":
\* book.xlsx was uploaded at time 0.  "paid": it was also checked out without
\* a selection, paid and verified, all at time 0.
\* In each the address has made PriorRequests requests in the open window of
\* the invocation (uploads refused for their type leave nothing else behind).
FlowSituations == {"blank", "paid"}

PriorRequests ==
    [blank |-> MaxRequests - 4, uploaded |-> MaxRequests - 3, paid |-> MaxRequests - 4]

UnpaidSession ==
    createSession([fileId |-> "file-1", fileName |-> "book.xlsx", paid |-> FALSE,
                   selectedKeyColumn |-> <<>>], 0)

PaidSession == markSessionAsPaid(UnpaidSession, 0)

PaidCheckout ==
    [id |-> "cs-1", payment_status |-> "paid",
     metadata |-> [fileId |-> "file-1", fileName |-> "book.xlsx"]]

FlowStart(situation) ==
    /\ rateLimitStore = (ClientIp :> [count |-> PriorRequests[situation],
                                       resetAt |-> RATE_LIMITS.LIGHT.windowMs])
    /\ served = (ClientIp :> [start |-> 0, HEAVY |-> 0,
                               LIGHT |-> PriorRequests[situation]])
    /\ fileStore = IF situation \in {"uploaded", "paid"}
                   THEN storeFile(EmptyMap, "file-1", "book.xlsx", <<FlowBook>>, 0)
                   ELSE EmptyMap
    /\ tmpFiles = IF situation \in {"uploaded", "paid"}
                  THEN saveTempFile(EmptyMap, "file-1", <<FlowBook>>, 0)
                  ELSE EmptyMap
    /\ stripeSessions = IF situation = "paid" THEN ("cs-1" :> PaidCheckout) ELSE EmptyMap
    /\ cookie = CASE situation = "blank" -> <<>>
                  [] situation = "uploaded" -> <<UnpaidSession>>
                  [] OTHER -> <<PaidSession>>
    /\ NoCall
    /\ prevResult = <<>>
    /\ uuidSeed = 0
    /\ now = 0
    /\ IdleScore
    /\ preview = <<>>
    /\ letterCall = <<>>
    /\ r2Bucket \in {[configured |-> c, objects |-> EmptyMap] : c \in BOOLEAN}
    /\ request = <<>>
    /\ response = <<>>
    /\ routeCall = <<>>

FlowInit == \E situation \in FlowSituations : FlowStart(situation)

FlowNext ==
    \/ Upload
    \/ Checkout
    \/ Pay
    \/ VerifyPayment
    \/ Analyze
    \/ IntegrityCheck
    \/ SheetLimitCheck
    \/ HiddenSheetsCheck
    \/ ProcessSheet
    \/ Finish
    \/ AnalyzeReturn
    \/ Download
    \/ DownloadReturn
    \/ NewInvocation

FlowSpec == FlowInit /\ [][FlowNext]_vars

(***************************************************************************)
(* The two gated routes on their own.                                      *)
(***************************************************************************)
GateInit == \E situation \in FlowSituations \cup {"uploaded"} : FlowStart(situation)

GateNext ==
    \/ Analyze
    \/ IntegrityCheck
    \/ SheetLimitCheck
    \/ HiddenSheetsCheck
    \/ ProcessSheet
    \/ Finish
    \/ AnalyzeReturn
    \/ Download
    \/ DownloadReturn
    \/ Sweep
    \/ NewInvocation
    \/ FlowAdvance

GateSpec == GateInit /\ [][GateNext]_vars

----------------------------------------------------------------------------
(***************************************************************************)
(* Properties of the routes.                                               *)
(***************************************************************************)
\* the cookie value is a token the server signed, not yet expired at time t
\* (an exp claim is reached at its own instant), whose session is paid
ValidPaidSession(tok, t) ==
    /\ tok # <<>>
    /\ tok[1].signed
    /\ t < tok[1].expiresAt
    /\ tok[1].paid

\* a handler of the route takes up a request in this step
Handles(route) ==
    /\ routeCall = <<>>
    /\ request' # <<>>
    /\ request'[1].route = route
    /\ <<request, response, served>>' # <<request, response, served>>

ResultsStored(store) ==
    {<<id, store[id].analysisResult>> : id \in {i \in DOMAIN store : store[i].analysisResult # <<>>}}

IsErrorResponse(r) == r # <<>> /\ ~r[1].ok /\ r[1].status >= 400

\* C22: POST /api/analyze and GET /api/report/download run only for a
\* request with a valid, unexpired, paid session; any other request gets an
\* error response, analyzeWorkbook is not called for it and no analysis
\* result is stored.
C22_PaidGate ==
    [][ \A route \in {"analyze", "download"} :
            (Handles(route) /\ ~ValidPaidSession(request'[1].token, now))
            => /\ IsErrorResponse(response')
               /\ routeCall' = <<>>
               /\ pc' = "idle"
               /\ ResultsStored(fileStore') \subseteq ResultsStored(fileStore)
      ]_vars

\* an unpaid session of a stored file asked for the analysis and was told
\* to pay
C22_Witness ==
    /\ request # <<>>
    /\ request[1].route \in {"analyze", "download"}
    /\ request[1].token # <<>>
    /\ request[1].token[1].signed
    /\ request[1].at < request[1].token[1].expiresAt
    /\ ~request[1].token[1].paid
    /\ request[1].token[1].fileId \in DOMAIN fileStore
    /\ response = << ERRORS.PAYMENT_REQUIRED >>
    /\ routeCall = <<>>

\* C25: with R2 configured, a POST /api/analyze of the paid session of an
\* uploaded file, served by a fresh invocation (empty in-memory store, empty
\* /tmp) and let through by the limiter, still obtains the file's bytes and
\* analyses them.
C25_AnalyzeAfterColdStart ==
    [][ ( /\ Handles("analyze")
          /\ r2Bucket.configured
          /\ fileStore = EmptyMap
          /\ tmpFiles = EmptyMap
          /\ ValidPaidSession(request'[1].token, now)
          /\ ~Limited("HEAVY") )
        => /\ routeCall' # <<>>
           /\ pc' = "start"
      ]_vars

\* C29: a session with paid = true has a fileId for which Stripe holds a
\* paid checkout session whose metadata.fileId is that fileId; uploading
\* another file in a paid session gives no paid session for a file that was
\* not paid for.
C29_PaidBoundToFile ==
    (cookie # <<>> /\ cookie[1].paid)
    => \E s \in DOMAIN stripeSessions :
           /\ stripeSessions[s].payment_status = "paid"
           /\ stripeSessions[s].metadata.fileId = cookie[1].fileId

\* the findings of analyzeWorkbook(wb, ..., keyColumn), ids apart
AnalysisFindings(wb, keyColumn) ==
    IF wb.SheetNames = <<>>
    THEN WithoutIds(<<NoSheetsFinding>>)
    ELSE WithoutIds(SheetLimitFindings(wb) \o HiddenSheetFindings(getSheetInfo(wb))
                    \o LoopFindings(wb, SubSeq(wb.SheetNames, 1,
                                               Min(MAX_SHEETS, Len(wb.SheetNames))),
                                    keyColumn))

\* C30: the result POST /api/analyze returns to a paid session is the
\* analysis of the session's file with the session's current
\* selectedKeyColumn; a result cached for an earlier selection is never
\* returned for another one.
C30_ResultMatchesSelection ==
    ( /\ routeCall = <<>>
      /\ request # <<>>
      /\ request[1].route = "analyze"
      /\ response # <<>>
      /\ response[1].ok
      /\ request[1].token[1].fileId \in DOMAIN fileStore )
    => LET session == request[1].token[1]
           file == fileStore[session.fileId]
       IN  WithoutIds(response[1].result.findings)
               = AnalysisFindings(file.buffer[1], session.selectedKeyColumn)

====
